---- MODULE Spec2Model ----
(***************************************************************************)
(* The security-scan worker: one HTTP delivery is parsed, a credential is  *)
(* resolved, the repository is acquired into a job-scoped directory, the   *)
(* five scanner adapters run concurrently, their findings are aggregated   *)
(* into a report, the report is written to the store and the delivery is   *)
(* answered 200 or 500.                                                    *)
(*                                                                         *)
(* Strings that the code searches or rewrites (file paths) are sequences   *)
(* of one-character strings; all other strings are atomic.                 *)
(***************************************************************************)
EXTENDS Integers, Sequences, FiniteSets, TLC

\* ------------------------------------------------------------- bounds
\* Deliveries the queue daemon makes in one behaviour.
MaxDeliveries == 2
\* Native findings the engines of one run emit in total: in the worker
\* specification, and in the specification of a single run.
MaxFindings == 1
MaxRunFindings == 2
\* Length of the file paths explored for the path-stripping function.
MaxPathLen == 7
\* Latest time, in minutes, at which a token is asked for.
MaxClock == 2

\* ---------------------------------------------------- program constants
\* The safety margin of the token cache and the lifetime of a newly issued
\* installation token, in minutes.
FiveMinutes == 5

TokenLifetime == 60

Tools == <<"semgrep", "opengrep", "gitleaks", "checkov", "trivy">>

ToolSet == {Tools[i] : i \in 1..Len(Tools)}

Severities == {"critical", "high", "medium", "low", "info"}

ScanIds == {"s1"}

\* The job-scoped directory TEMP_DIR/<scanId> and, below it, the archive's
\* wrapper directory, as path strings.
JobDirPath == <<"/", "t">>

WrapperPath == JobDirPath \o <<"/", "w">>

\* ------------------------------------------------------------- strings
BSeq(S, n) == UNION {[1..k -> S] : k \in 0..n}

\* String.prototype.indexOf: the first position of pat in s, 0 when absent.
IndexOf(s, pat) ==
  LET hits == {i \in 1..(Len(s) - Len(pat) + 1) : SubSeq(s, i, i + Len(pat) - 1) = pat}
  IN IF hits = {} THEN 0 ELSE CHOOSE i \in hits : \A j \in hits : i <= j

Includes(s, pat) == IndexOf(s, pat) # 0

\* String.prototype.replace(pat, '') with a string pattern: the FIRST
\* occurrence only is removed.
ReplaceFirst(s, pat) ==
  LET i == IndexOf(s, pat)
  IN IF i = 0 THEN s ELSE SubSeq(s, 1, i - 1) \o SubSeq(s, i + Len(pat), Len(s))

\* issue.filePath.replace(tempDir + '/', '').replace(tempDir, '')
StripTempDir(filePath, tempDir) ==
  ReplaceFirst(ReplaceFirst(filePath, tempDir \o <<"/">>), tempDir)

\* ---------------------------------------------------- severity mapping
\* The severity words the engines' outputs are drawn from, in the
\* spellings that occur: upper case, lower case, capitalised, and words no
\* adapter knows.
SeverityWords ==
  {"ERROR", "WARNING", "INFO", "CRITICAL", "HIGH", "MEDIUM", "LOW", "UNKNOWN",
   "error", "warning", "info", "critical", "high", "medium", "low", "unknown",
   "Error", "High", "note", "none", ""}

toLowerCase(s) ==
  CASE s \in {"ERROR", "Error"} -> "error"
    [] s = "WARNING" -> "warning"
    [] s = "INFO" -> "info"
    [] s = "CRITICAL" -> "critical"
    [] s \in {"HIGH", "High"} -> "high"
    [] s = "MEDIUM" -> "medium"
    [] s = "LOW" -> "low"
    [] s = "UNKNOWN" -> "unknown"
    [] OTHER -> s

toUpperCase(s) ==
  CASE s \in {"high", "High"} -> "HIGH"
    [] s = "critical" -> "CRITICAL"
    [] s = "medium" -> "MEDIUM"
    [] s = "low" -> "LOW"
    [] s \in {"error", "Error"} -> "ERROR"
    [] s = "warning" -> "WARNING"
    [] s = "info" -> "INFO"
    [] s = "unknown" -> "UNKNOWN"
    [] s = "note" -> "NOTE"
    [] s = "none" -> "NONE"
    [] OTHER -> s

mapSemgrepSeverity(severity) ==
  LET s == toLowerCase(severity)
  IN CASE s \in {"error", "critical"} -> "critical"
       [] s = "warning" -> "high"
       [] s = "info" -> "medium"
       [] OTHER -> "low"

mapOpengrepSeverity(severity) ==
  LET s == toLowerCase(severity)
  IN CASE s \in {"error", "critical"} -> "critical"
       [] s = "warning" -> "high"
       [] s = "info" -> "medium"
       [] OTHER -> "low"

\* check_class is a sequence of words; includes(w) is membership.
ClassIncludes(checkClass, w) == \E i \in 1..Len(checkClass) : checkClass[i] = w

mapCheckovSeverity(checkClass) ==
  IF ClassIncludes(checkClass, "CRITICAL") THEN "critical"
  ELSE IF ClassIncludes(checkClass, "HIGH") THEN "high"
  ELSE IF ClassIncludes(checkClass, "MEDIUM") THEN "medium"
  ELSE IF ClassIncludes(checkClass, "LOW") THEN "low"
  ELSE "medium"

mapTrivySeverityRaw(severity) ==
  LET s == toUpperCase(severity)
  IN CASE s = "CRITICAL" -> "critical"
       [] s = "HIGH" -> "high"
       [] s = "MEDIUM" -> "medium"
       [] s = "LOW" -> "low"
       [] OTHER -> severity

mapTrivySeverity(severity) ==
  LET s == toUpperCase(severity)
  IN CASE s = "CRITICAL" -> "critical"
       [] s = "HIGH" -> "high"
       [] s = "MEDIUM" -> "medium"
       [] s = "LOW" -> "low"
       [] OTHER -> "info"

\* --------------------------------------------------- engines' output
\* What an engine can print for a scan of directory root: findings with the
\* engine's own severity word and a path that is absolute under root,
\* relative, or missing.
NativeFindings(t, root) ==
  CASE t = "semgrep" ->
         {[severity |-> "ERROR", hasPath |-> TRUE, path |-> root \o <<"/", "a">>],
          [severity |-> "note", hasPath |-> FALSE, path |-> <<>>]}
    [] t = "opengrep" ->
         {[severity |-> "WARNING", hasPath |-> TRUE, path |-> root \o <<"/", "a">>]}
    [] t = "gitleaks" ->
         {[severity |-> "none", hasPath |-> TRUE, path |-> root \o <<"/", "a">>]}
    [] t = "checkov" ->
         {[severity |-> <<"checks", "LOW">>, hasPath |-> TRUE, path |-> <<"/", "a">>]}
    [] OTHER ->
         {[severity |-> "UNKNOWN", hasPath |-> TRUE, path |-> <<"a">>]}

NativeOutputs(t, root, room) == BSeq(NativeFindings(t, root), room)

\* The adapters' mapping of one native finding to a SecurityIssue.
ToIssue(t, f) ==
  [tool |-> t,
   severity |-> CASE t = "semgrep" -> mapSemgrepSeverity(f.severity)
                  [] t = "opengrep" -> mapOpengrepSeverity(f.severity)
                  [] t = "gitleaks" -> "critical"
                  [] t = "checkov" -> mapCheckovSeverity(f.severity)
                  [] OTHER -> mapTrivySeverity(f.severity),
   hasPath |-> f.hasPath,
   filePath |-> f.path]

ParseOutput(t, out) == [i \in 1..Len(out) |-> ToIssue(t, out[i])]


\* --------------------------------------------------------------- state
VARIABLES
  pc,         \* where the delivery in progress stands
  seq,        \* deliveries made so far; also names the job-scoped directory
  body,       \* the request body being received
  job,        \* the parsed job: scanId and repoUrl
  token,      \* whether a token was resolved for the download
  response,   \* HTTP status sent for the delivery, 0 while unanswered
  failedAt,   \* the step of the delivery at which an error was thrown
  wrote,      \* the store writes this delivery completed, in order
  dirs,       \* job-scoped directories on disk
  zips,       \* downloaded archives on disk
  scanRoot,   \* "flat": path is the job directory; "nested": the wrapper
  handle,     \* handles downloadRepoAsZip has returned to the run
  releases,   \* completed calls of the handle's cleanup()
  rmFailed,   \* whether a removal of the job-scoped directory failed
  timer,      \* the 15-minute cleanup timer of the run
  ad,         \* the five adapter promises
  killed,     \* adapters whose subprocess got SIGKILL
  pending,    \* what runSecurityScan is about to return or throw
  scans,      \* store: the security_scans row of each scanId
  issueRows,  \* store: the security_issues rows
  probe,      \* a file path under test: input, temp dir and result
  engine,     \* what the engine of each adapter did, once the adapter ran
  invoked,    \* adapters whose engine was started
  curl,       \* the download command in flight: endpoint and auth header
  inst,       \* an installation record, the clock and a token call's trace
  conn,       \* the requests the HTTP server has accepted
  temp,       \* the entries of .temp by age, and the time since the last sweep
  dl,         \* one download: what the server sends and what is on disk
  tree,       \* one extraction: the job directory's entries and the flatten's progress
  mapping,    \* one severity mapping: adapter, native value, mapped value
  fan,        \* one fan-out: skipTools and the adapters in their order of completion
  race,       \* concurrent getInstallationToken calls on one installation row
  mask,       \* one secret and the snippet the gitleaks adapter makes of it
  area        \* one job's entries in .temp while the sweep recurs

vars == <<pc, seq, body, job, token, response, failedAt, wrote, dirs, zips,
          scanRoot, handle, releases, rmFailed, timer, ad, killed, pending,
          scans, issueRows, probe, engine, invoked, curl, inst, conn, temp, dl, tree, mapping,
          fan, race, mask, area>>

lateVars == <<fan, race, mask, area>>

auxVars == <<temp, dl, tree, mapping, lateVars>>

extVars == <<engine, invoked, curl, inst, conn, auxVars>>

deliveryVars == <<body, job, token, response, failedAt, wrote>>

fsVars == <<dirs, zips>>

runVars == <<scanRoot, handle, releases, rmFailed, timer, ad, killed, pending>>

storeVars == <<scans, issueRows>>

NoBody == [malformed |-> FALSE, scanId |-> "", cred |-> "none", repoUrl |-> "ok"]

NoJob == [scanId |-> "", repoUrl |-> "ok"]

NoPending == [kind |-> "none"]

NoProbe == [filePath |-> <<>>, tempDir |-> <<>>, cleaned |-> <<>>, done |-> FALSE]

NoEngine == [t \in ToolSet |-> [kind |-> "none"]]

NoCurl == [endpoint |-> "none", auth |-> FALSE]

NoInst == [kind |-> "none"]

NoConn == <<>>

NoTemp == [age |-> <<>>, since |-> 0, readdirOk |-> TRUE, failed |-> {}, removed |-> {}]

NoDl == [kind |-> "none"]

NoTree == [kind |-> "none"]

NoMapping == [kind |-> "none"]

NoFan == [kind |-> "none"]

NoRace == [kind |-> "none"]

NoMask == [kind |-> "none"]

NoArea == [kind |-> "none"]

LateInit == fan = NoFan /\ race = NoRace /\ mask = NoMask /\ area = NoArea

IdleAdapters == [t \in ToolSet |-> [st |-> "idle", issues |-> <<>>]]

ZeroSummary == [critical |-> 0, high |-> 0, medium |-> 0, low |-> 0, info |-> 0, total |-> 0]

\* A security_scans row as the web application inserts it before queueing.
NewScanRow == [status |-> "running", completedAt |-> "null", summary |-> ZeroSummary,
               toolsUsed |-> <<>>]

\* Request bodies the daemon can post: unparseable, or a job with a direct
\* token, an installation id or neither, and a good, empty or foreign URL.
Bodies ==
  {[malformed |-> TRUE, scanId |-> "", cred |-> "none", repoUrl |-> "ok"]} \cup
  {[malformed |-> FALSE, scanId |-> s, cred |-> c, repoUrl |-> u] :
     s \in ScanIds, c \in {"token", "installation", "none"}, u \in {"ok"}} \cup
  {[malformed |-> FALSE, scanId |-> s, cred |-> "token", repoUrl |-> u] :
     s \in ScanIds, u \in {"empty", "invalid"}}

TempDirPath == IF scanRoot = "flat" THEN JobDirPath ELSE WrapperPath


\* ------------------------------------------------------- aggregation
\* The call site's .then/.catch: a rejected adapter promise counts as [].
Settled(p) == IF p.st = "rejected" THEN <<>> ELSE p.issues

\* (await Promise.all(scanPromises)).flat(): the order of the call sites.
AllIssues(a) ==
  Settled(a["semgrep"]) \o Settled(a["opengrep"]) \o Settled(a["gitleaks"]) \o
  Settled(a["checkov"]) \o Settled(a["trivy"])

CountSeverity(issues, sev) ==
  Cardinality({i \in 1..Len(issues) : issues[i].severity = sev})

Summary(issues) ==
  [critical |-> CountSeverity(issues, "critical"),
   high |-> CountSeverity(issues, "high"),
   medium |-> CountSeverity(issues, "medium"),
   low |-> CountSeverity(issues, "low"),
   info |-> CountSeverity(issues, "info"),
   total |-> Len(issues)]

CleanedIssues(all, tempDir) ==
  [i \in 1..Len(all) |->
     [tool |-> all[i].tool, severity |-> all[i].severity,
      filePath |-> StripTempDir(all[i].filePath, tempDir)]]

\* What the try block of runSecurityScan ends with once every adapter has
\* settled: the report, or the TypeError of issue.filePath.replace on an
\* issue without a path.
ScanResult(a, tempDir) ==
  LET all == AllIssues(a)
  IN IF \E i \in 1..Len(all) : ~all[i].hasPath
     THEN [kind |-> "error"]
     ELSE [kind |-> "report",
           issues |-> CleanedIssues(all, tempDir),
           summary |-> Summary(CleanedIssues(all, tempDir)),
           toolsUsed |-> Tools]

RmKeeps(entries, d, rmOk) == entries

\* rm(path, {recursive, force}): the entry is gone when it succeeds, and
\* stays when it fails; removing a missing entry always succeeds.
Rm(entries, d, rmOk) == IF rmOk THEN entries \ {d} ELSE entries

RmFailsOnMissing(entries, d, rmOk) == ~rmOk

RmFails(entries, d, rmOk) == d \in entries /\ ~rmOk

\* ------------------------------------------------------------ worker
Init ==
  /\ pc = "idle"
  /\ seq = 0
  /\ body = NoBody
  /\ job = NoJob
  /\ token = FALSE
  /\ response = 0
  /\ failedAt = "none"
  /\ wrote = <<>>
  /\ dirs = {}
  /\ zips = {}
  /\ scanRoot = "flat"
  /\ handle = 0
  /\ releases = 0
  /\ rmFailed = FALSE
  /\ timer = "none"
  /\ ad = IdleAdapters
  /\ killed = {}
  /\ pending = NoPending
  /\ scans = [s \in ScanIds |-> NewScanRow]
  /\ issueRows = <<>>
  /\ probe = NoProbe
  /\ engine = NoEngine
  /\ invoked = {}
  /\ curl = NoCurl
  /\ inst = NoInst
  /\ conn = NoConn
  /\ temp = NoTemp
  /\ dl = NoDl
  /\ tree = NoTree
  /\ mapping = NoMapping
  /\ LateInit

\* POST / arrives; everything of the previous delivery is gone.
Deliver(b) ==
  /\ pc \in {"idle", "done"}
  /\ seq < MaxDeliveries
  /\ seq' = seq + 1
  /\ pc' = "receiving"
  /\ body' = b
  /\ job' = NoJob
  /\ token' = FALSE
  /\ response' = 0
  /\ failedAt' = "none"
  /\ wrote' = <<>>
  /\ scanRoot' = "flat"
  /\ handle' = 0
  /\ releases' = 0
  /\ rmFailed' = FALSE
  /\ timer' = "none"
  /\ ad' = IdleAdapters
  /\ killed' = {}
  /\ pending' = NoPending
  /\ invoked' = {}
  /\ UNCHANGED <<fsVars, storeVars, probe, engine, curl, inst, conn, auxVars>>

\* req.on('error')
RequestError ==
  /\ pc = "receiving"
  /\ response' = 500
  /\ failedAt' = "request"
  /\ body' = NoBody
  /\ pc' = "done"
  /\ UNCHANGED <<seq, job, token, wrote, fsVars, runVars, storeVars, probe, extVars>>

\* req.on('end'), JSON.parse throws: the handler's catch answers 500.
ParseFail ==
  /\ pc = "receiving"
  /\ body.malformed
  /\ response' = 500
  /\ failedAt' = "parse"
  /\ body' = NoBody
  /\ pc' = "done"
  /\ UNCHANGED <<seq, job, token, wrote, fsVars, runVars, storeVars, probe, extVars>>

\* req.on('end'), the body parses: processJob starts and picks the way to
\* a token.
ParseOk ==
  /\ pc = "receiving"
  /\ ~body.malformed
  /\ job' = [scanId |-> body.scanId, repoUrl |-> body.repoUrl]
  /\ token' = (body.cred = "token")
  /\ pc' = CASE body.cred = "token" -> "scan_begin"
             [] body.cred = "installation" -> "token"
             [] OTHER -> "lookup"
  /\ body' = NoBody
  /\ UNCHANGED <<seq, response, failedAt, wrote, fsVars, runVars, storeVars, probe, extVars>>

\* db.query.githubRepos.findFirst
LookupRepo(r) ==
  /\ pc = "lookup"
  /\ pc' = CASE r = "found" -> "token"
             [] r = "absent" -> "scan_begin"
             [] OTHER -> "catch"
  /\ failedAt' = IF r = "dberror" THEN "lookup" ELSE failedAt
  /\ UNCHANGED <<seq, body, job, token, response, wrote, fsVars, runVars, storeVars, probe, extVars>>

AfterTokenErrorProceeds == "scan_begin"

\* Where processJob goes when getInstallationToken throws: the await is
\* inside its try.
AfterTokenError == "catch"

\* getInstallationToken resolves or throws.
GetToken(ok) ==
  /\ pc = "token"
  /\ token' = ok
  /\ pc' = IF ok THEN "scan_begin" ELSE AfterTokenError
  /\ failedAt' = IF ok THEN failedAt ELSE "credential"
  /\ UNCHANGED <<seq, body, job, response, wrote, fsVars, runVars, storeVars, probe, extVars>>


\* ------------------------------------------------------- acquisition
\* runSecurityScan is entered: an empty repoUrl throws before the try;
\* otherwise downloadRepoAsZip makes the job-scoped directory.
ScanBegin ==
  /\ pc = "scan_begin"
  /\ IF job.repoUrl = "empty"
     THEN /\ pc' = "catch"
          /\ failedAt' = "url"
          /\ dirs' = dirs
     ELSE /\ pc' = "acq_url"
          /\ failedAt' = failedAt
          /\ dirs' = dirs \cup {seq}
  /\ UNCHANGED <<seq, body, job, token, response, wrote, zips, runVars, storeVars, probe, extVars>>

\* The catch of downloadRepoAsZip: rm(tempDir) then rm(zip) in one try, so
\* a failing first removal skips the second.
AcquisitionFails(rmOk) ==
  /\ dirs' = Rm(dirs, seq, rmOk)
  /\ zips' = IF rmOk THEN zips \ {seq} ELSE zips
  /\ rmFailed' = (rmFailed \/ RmFails(dirs, seq, rmOk))
  /\ failedAt' = "acquire"
  /\ pc' = "catch"

EndpointAlwaysApi(tok) == "api"

\* useApiEndpoint = !!options.token: the API zipball URL with a token, the
\* public archive URL without.
Endpoint(tok) == IF tok THEN "api" ELSE "archive"

\* The curl command: its URL and whether it carries -H 'Authorization:
\* token ...', which it does when escapedToken is not empty.
CurlCommand(tok) == [endpoint |-> Endpoint(tok), auth |-> tok]

\* The URL is matched against github.com/<owner>/<repo>; the token, if any,
\* goes into the curl command and is not read again; curl is started.
AcqUrl(rmOk) ==
  /\ pc = "acq_url"
  /\ IF job.repoUrl = "invalid"
     THEN /\ AcquisitionFails(rmOk)
          /\ UNCHANGED curl
     ELSE /\ rmOk
          /\ pc' = "acq_download"
          /\ curl' = CurlCommand(token)
          /\ UNCHANGED <<dirs, zips, rmFailed, failedAt>>
  /\ token' = FALSE
  /\ UNCHANGED <<seq, body, job, response, wrote, scanRoot, handle, releases,
                 timer, ad, killed, pending, storeVars, probe, engine, invoked, inst, conn, auxVars>>

\* What curl left: a ZIP, or a failed transfer, a non-2xx status, no file,
\* an empty file, a file over 5 GB, a file without the PK magic.
DownloadKinds == {"zip", "curlError", "httpError", "missing", "empty", "tooLarge", "notZip"}

\* curl ends and the file is validated; the inner catch removes a bad file
\* before the outer catch runs.
AcqDownload(kind, rmOk) ==
  /\ pc = "acq_download"
  /\ IF kind = "zip"
     THEN /\ rmOk
          /\ zips' = zips \cup {seq}
          /\ pc' = "acq_extract"
          /\ UNCHANGED <<dirs, rmFailed, failedAt>>
     ELSE AcquisitionFails(rmOk)
  /\ curl' = NoCurl
  /\ UNCHANGED <<seq, body, job, token, response, wrote, scanRoot, handle, releases,
                 timer, ad, killed, pending, storeVars, probe, engine, invoked, inst, conn, auxVars>>

\* unzip, readdir, the flattening of the wrapper directory, rm(zip).
\* "nested" is what the flatten step leaves when the wrapper is empty or a
\* rename fails: the returned path is the wrapper.
ExtractOutcome(r, rmOk) ==
  IF r \in {"unzipError", "noFiles"}
  THEN /\ AcquisitionFails(rmOk)
       /\ UNCHANGED <<scanRoot, handle>>
  ELSE /\ rmOk
       /\ scanRoot' = r
       /\ handle' = handle + 1
       /\ zips' = zips \ {seq}
       /\ pc' = "acquired"
       /\ UNCHANGED <<dirs, rmFailed, failedAt>>

AcqExtract(r, rmOk) ==
  /\ pc = "acq_extract"
  /\ ExtractOutcome(r, rmOk)
  /\ UNCHANGED <<seq, body, job, token, response, wrote, releases, timer, ad, killed,
                 pending, storeVars, probe, extVars>>

\* ----------------------------------------------------------- fan-out
CleanupSkipped(rmOk) ==
  /\ rmOk
  /\ UNCHANGED <<dirs, rmFailed, releases>>

\* The handle's cleanup(): rm of the job-scoped directory, errors logged
\* and swallowed.
Cleanup(rmOk) ==
  /\ dirs' = Rm(dirs, seq, rmOk)
  /\ rmFailed' = (rmFailed \/ RmFails(dirs, seq, rmOk))
  /\ releases' = releases + 1

\* The timer is set and the five adapters are called, one after the other,
\* before the first await.
StartScan ==
  /\ pc = "acquired"
  /\ timer' = "armed"
  /\ ad' = [t \in ToolSet |-> [st |-> "running", issues |-> <<>>]]
  /\ pc' = "adapters"
  /\ UNCHANGED <<seq, deliveryVars, fsVars, scanRoot, handle, releases, rmFailed, killed,
                 pending, storeVars, probe, extVars>>

Room(a) == MaxRunFindings - Len(AllIssues(a))

AdapterFrame ==
  UNCHANGED <<pc, seq, deliveryVars, fsVars, scanRoot, handle, releases, rmFailed, timer,
              pending, storeVars, probe, engine, curl, inst, conn, auxVars>>

\* `which <engine>` failed: nothing else is known of the engine.
NotInstalled ==
  [installed |-> FALSE, signal |-> "none", exitOk |-> TRUE, stdout |-> "empty", out |-> <<>>]

EngineStartedAnyway(t, e) == {t}

\* Engines started by a call of adapter t: none when `which` fails, since
\* the adapter returns before its execAsync of the engine.
EngineStarted(t, e) == IF e.installed THEN {t} ELSE {}

\* `which <engine>` fails: [] without running the engine.
AdapterMissing(t) ==
  /\ pc = "adapters"
  /\ ad[t].st = "running"
  /\ ad' = [ad EXCEPT ![t] = [st |-> "missing", issues |-> <<>>]]
  /\ invoked' = invoked \cup EngineStarted(t, NotInstalled)
  /\ UNCHANGED killed
  /\ AdapterFrame

KilledOnTimeoutAll(t) == ToolSet

\* Subprocesses that get SIGKILL when the exec of adapter t times out.
KilledOnTimeout(t) == {t}

\* The engine runs past 10 minutes: exec kills it, the catch returns [].
AdapterTimeout(t) ==
  /\ pc = "adapters"
  /\ ad[t].st = "running"
  /\ ad' = [ad EXCEPT ![t] = [st |-> "timeout", issues |-> <<>>]]
  /\ killed' = killed \cup KilledOnTimeout(t)
  /\ invoked' = invoked \cup {t}
  /\ AdapterFrame

OnAdapterErrorKeepsPartial(t) ==
  [st |-> "error",
   issues |-> <<[tool |-> t, severity |-> "info", hasPath |-> TRUE, filePath |-> <<"a">>]>>]

\* What an adapter resolves to when anything inside its try throws.
OnAdapterError(t) == [st |-> "error", issues |-> <<>>]

\* Non-zero exit, output over maxBuffer, unparseable or misshapen output.
AdapterError(t) ==
  /\ pc = "adapters"
  /\ ad[t].st = "running"
  /\ ad' = [ad EXCEPT ![t] = OnAdapterError(t)]
  /\ invoked' = invoked \cup {t}
  /\ UNCHANGED killed
  /\ AdapterFrame

\* The engine's output parses: the adapter resolves to its issues.
AdapterOk(t, out) ==
  /\ pc = "adapters"
  /\ ad[t].st = "running"
  /\ Len(out) <= Room(ad)
  /\ ad' = [ad EXCEPT ![t] = [st |-> "ok", issues |-> ParseOutput(t, out)]]
  /\ invoked' = invoked \cup {t}
  /\ UNCHANGED killed
  /\ AdapterFrame

\* The 15-minute timer fires, which it can do for as long as it is armed:
\* cleanup() is called; the adapters are left alone.
WatchdogFire(rmOk) ==
  /\ timer = "armed"
  /\ timer' = "fired"
  /\ Cleanup(rmOk)
  /\ UNCHANGED <<pc, seq, deliveryVars, zips, scanRoot, handle, ad, killed, pending,
                 storeVars, probe, extVars>>

AllSettled(a) == \A t \in ToolSet : a[t].st \notin {"idle", "running"}

ClearTimeoutSkipped(t) == t

\* if (cleanupTimeout) clearTimeout(cleanupTimeout): a timer that has not
\* fired will not; one that has fired is not changed.
ClearTimeout(t) == IF t = "armed" THEN "cleared" ELSE t

\* Promise.all resolves: the report is built (or the TypeError thrown) and
\* the finally block clears the timer and calls cleanup().
Aggregate ==
  /\ pc = "adapters"
  /\ AllSettled(ad)
  /\ pending' = ScanResult(ad, TempDirPath)
  /\ timer' = ClearTimeout(timer)
  /\ pc' = "finally"
  /\ UNCHANGED <<seq, deliveryVars, fsVars, scanRoot, handle, releases, rmFailed, ad,
                 killed, storeVars, probe, extVars>>

FinallySkipsCleanup(rmOk) ==
  /\ rmOk
  /\ UNCHANGED <<dirs, rmFailed, releases>>

\* What the finally block of runSecurityScan awaits before the result or
\* the error leaves the function.
FinallyCleanup(rmOk) == Cleanup(rmOk)

Finally(rmOk) ==
  /\ pc = "finally"
  /\ FinallyCleanup(rmOk)
  /\ pc' = IF pending.kind = "report" THEN "persist" ELSE "catch"
  /\ failedAt' = IF pending.kind = "report" THEN failedAt ELSE "scan"
  /\ UNCHANGED <<seq, body, job, token, response, wrote, zips, scanRoot, handle, timer,
                 ad, killed, pending, storeVars, probe, extVars>>


\* What one adapter promise can settle to, with room findings at most.
SettledOutcomes(t, root, room) ==
  {[st |-> "missing", issues |-> <<>>], [st |-> "timeout", issues |-> <<>>],
   OnAdapterError(t)} \cup
  {[st |-> "ok", issues |-> ParseOutput(t, out)] : out \in NativeOutputs(t, root, room)}

\* Every way the five adapter promises of one run can settle.
SettledRuns(root) ==
  UNION {UNION {UNION {UNION {
    {[t \in ToolSet |->
        CASE t = "semgrep" -> o1 [] t = "opengrep" -> o2 [] t = "gitleaks" -> o3
          [] t = "checkov" -> o4 [] OTHER -> o5] :
       o5 \in SettledOutcomes("trivy", root, MaxFindings - Len(o1.issues) - Len(o2.issues)
                                               - Len(o3.issues) - Len(o4.issues))} :
    o4 \in SettledOutcomes("checkov", root, MaxFindings - Len(o1.issues) - Len(o2.issues)
                                              - Len(o3.issues))} :
    o3 \in SettledOutcomes("gitleaks", root, MaxFindings - Len(o1.issues) - Len(o2.issues))} :
    o2 \in SettledOutcomes("opengrep", root, MaxFindings - Len(o1.issues))} :
    o1 \in SettledOutcomes("semgrep", root, MaxFindings)}

\* What the try block of a run can end with, per scan root.
FlatResults == {ScanResult(a, JobDirPath) : a \in SettledRuns(JobDirPath)}

NestedResults == {ScanResult(a, WrapperPath) : a \in SettledRuns(WrapperPath)}

\* StartScan, the settling of all five adapters, a firing of the timer in
\* between or not, and Aggregate, taken as one step; the promises, the
\* kill signals and the scan root, which nothing reads after the paths are
\* stripped, are not kept.
RunAdapters(res, wd, rmOk) ==
  /\ pc = "acquired"
  /\ res \in (IF scanRoot = "flat" THEN FlatResults ELSE NestedResults)
  /\ pending' = res
  /\ IF wd
     THEN /\ timer' = "fired"
          /\ Cleanup(rmOk)
     ELSE /\ rmOk
          /\ timer' = "cleared"
          /\ UNCHANGED <<dirs, rmFailed, releases>>
  /\ pc' = "finally"
  /\ scanRoot' = "flat"
  /\ UNCHANGED <<seq, deliveryVars, zips, handle, ad, killed, storeVars, probe, extVars>>

\* ------------------------------------------------------- persistence
StoredRows(scanId, issues) ==
  [i \in 1..Len(issues) |->
     [scanId |-> scanId, tool |-> issues[i].tool, severity |-> issues[i].severity,
      filePath |-> issues[i].filePath]]

RowsOf(scanId) == SelectSeq(issueRows, LAMBDA r : r.scanId = scanId)

\* .set({status: 'completed', toolsUsed, totalIssues, ...Count, completedAt})
CompletedRow(res) ==
  [status |-> "completed", completedAt |-> "set", summary |-> res.summary,
   toolsUsed |-> res.toolsUsed]

\* db.update(securityScans)...where(scanId); without issues processJob
\* returns right after it.
PersistUpdate(ok) ==
  /\ pc = "persist"
  /\ IF ok
     THEN /\ scans' = [scans EXCEPT ![job.scanId] = CompletedRow(pending)]
          /\ wrote' = Append(wrote, "completed")
          /\ pc' = IF Len(pending.issues) > 0 THEN "insert" ELSE "returned"
          /\ UNCHANGED failedAt
     ELSE /\ failedAt' = "store"
          /\ pc' = "catch"
          /\ UNCHANGED <<scans, wrote>>
  /\ UNCHANGED <<seq, body, job, token, response, fsVars, runVars, issueRows, probe, extVars>>

\* db.insert(securityIssues).values(...)
PersistInsert(ok) ==
  /\ pc = "insert"
  /\ IF ok
     THEN /\ issueRows' = issueRows \o StoredRows(job.scanId, pending.issues)
          /\ wrote' = Append(wrote, "issues")
          /\ pc' = "returned"
          /\ UNCHANGED failedAt
     ELSE /\ failedAt' = "store"
          /\ pc' = "catch"
          /\ UNCHANGED <<issueRows, wrote>>
  /\ UNCHANGED <<seq, body, job, token, response, fsVars, runVars, scans, probe, extVars>>

MarkedFailedNoTimestamp(row) == [row EXCEPT !.status = "failed"]

\* .set({status: 'failed', completedAt: new Date()}): the other columns of
\* the row keep their values.
MarkedFailed(row) == [row EXCEPT !.status = "failed", !.completedAt = "set"]

AfterMarkFailedSwallows == "returned"

\* Where processJob's catch leaves the delivery after its store write.
AfterMarkFailed == "threw"

\* The catch of processJob: db.update(...).set({status: 'failed',
\* completedAt}), then the error is thrown again; a failing update throws
\* in its place.
MarkFailed(ok) ==
  /\ pc = "catch"
  /\ IF ok
     THEN /\ scans' = [scans EXCEPT ![job.scanId] = MarkedFailed(scans[job.scanId])]
          /\ wrote' = Append(wrote, "failed")
     ELSE UNCHANGED <<scans, wrote>>
  /\ pc' = AfterMarkFailed
  /\ UNCHANGED <<seq, body, job, token, response, failedAt, fsVars, runVars, issueRows,
                 probe, extVars>>

\* processJob resolved: res.writeHead(200)
Respond200 ==
  /\ pc = "returned"
  /\ response' = 200
  /\ pc' = "done"
  /\ UNCHANGED <<seq, body, job, token, failedAt, wrote, fsVars, runVars, storeVars, probe, extVars>>

\* processJob rejected: res.writeHead(500)
Respond500 ==
  /\ pc = "threw"
  /\ response' = 500
  /\ pc' = "done"
  /\ UNCHANGED <<seq, body, job, token, failedAt, wrote, fsVars, runVars, storeVars, probe, extVars>>

\* ---------------------------------------------------- specifications
\* The worker, delivery after delivery; a run's fan-out is one step.
Next ==
  \/ \E b \in Bodies : Deliver(b)
  \/ RequestError
  \/ ParseFail
  \/ ParseOk
  \/ \E r \in {"found", "absent", "dberror"} : LookupRepo(r)
  \/ \E ok \in BOOLEAN : GetToken(ok)
  \/ ScanBegin
  \/ \E rmOk \in BOOLEAN : AcqUrl(rmOk)
  \/ \E kind \in DownloadKinds, rmOk \in BOOLEAN : AcqDownload(kind, rmOk)
  \/ \E r \in {"unzipError", "noFiles", "flat", "nested"}, rmOk \in BOOLEAN : AcqExtract(r, rmOk)
  \/ \E res \in FlatResults \cup NestedResults, wd \in BOOLEAN, rmOk \in BOOLEAN :
       RunAdapters(res, wd, rmOk)
  \/ \E rmOk \in BOOLEAN : Finally(rmOk)
  \/ \E ok \in BOOLEAN : PersistUpdate(ok)
  \/ \E ok \in BOOLEAN : PersistInsert(ok)
  \/ \E ok \in BOOLEAN : MarkFailed(ok)
  \/ Respond200
  \/ Respond500

Spec == Init /\ [][Next]_vars

\* The steps that end by the program's own doing once they are reached: the
\* parse, the store and token calls (taken to answer or fail), the
\* synchronous steps, the finally block and the answer.
ProgramSteps ==
  \/ ParseFail
  \/ ParseOk
  \/ \E r \in {"found", "absent", "dberror"} : LookupRepo(r)
  \/ \E ok \in BOOLEAN : GetToken(ok)
  \/ ScanBegin
  \/ \E rmOk \in BOOLEAN : AcqUrl(rmOk)
  \/ \E rmOk \in BOOLEAN : Finally(rmOk)
  \/ \E ok \in BOOLEAN : PersistUpdate(ok)
  \/ \E ok \in BOOLEAN : PersistInsert(ok)
  \/ \E ok \in BOOLEAN : MarkFailed(ok)
  \/ Respond200
  \/ Respond500

\* The worker under the scheduling the code guarantees. The awaits on
\* subprocesses started without a timeout carry no fairness: curl
\* (execAsync(curlCommand, {maxBuffer})), unzip (execAsync with maxBuffer
\* only) and the `which` of each adapter (execAsync with no options) end
\* only when the subprocess ends; the 15-minute timer of runSecurityScan
\* starts after the acquisition and runs cleanup without settling any
\* await.
LiveSpec == Init /\ [][Next]_vars /\ WF_vars(ProgramSteps)

\* One delivery from the call of runSecurityScan on, with the adapters of
\* the run interleaved, to the answer.
ScanInit ==
  /\ pc = "scan_begin"
  /\ seq = 1
  /\ body = NoBody
  /\ job \in {[scanId |-> s, repoUrl |-> u] : s \in ScanIds, u \in {"ok", "empty", "invalid"}}
  /\ token \in BOOLEAN
  /\ response = 0
  /\ failedAt = "none"
  /\ wrote = <<>>
  /\ dirs = {}
  /\ zips = {}
  /\ scanRoot = "flat"
  /\ handle = 0
  /\ releases = 0
  /\ rmFailed = FALSE
  /\ timer = "none"
  /\ ad = IdleAdapters
  /\ killed = {}
  /\ pending = NoPending
  /\ scans = [s \in ScanIds |-> NewScanRow]
  /\ issueRows = <<>>
  /\ probe = NoProbe
  /\ engine = NoEngine
  /\ invoked = {}
  /\ curl = NoCurl
  /\ inst = NoInst
  /\ conn = NoConn
  /\ temp = NoTemp
  /\ dl = NoDl
  /\ tree = NoTree
  /\ mapping = NoMapping
  /\ LateInit

ScanNext ==
  \/ ScanBegin
  \/ \E rmOk \in BOOLEAN : AcqUrl(rmOk)
  \/ \E kind \in DownloadKinds, rmOk \in BOOLEAN : AcqDownload(kind, rmOk)
  \/ \E r \in {"unzipError", "noFiles", "flat", "nested"}, rmOk \in BOOLEAN : AcqExtract(r, rmOk)
  \/ StartScan
  \/ \E t \in ToolSet : AdapterMissing(t)
  \/ \E t \in ToolSet : AdapterTimeout(t)
  \/ \E t \in ToolSet : AdapterError(t)
  \/ \E t \in ToolSet : \E out \in NativeOutputs(t, TempDirPath, MaxRunFindings) : AdapterOk(t, out)
  \/ \E rmOk \in BOOLEAN : WatchdogFire(rmOk)
  \/ Aggregate
  \/ \E rmOk \in BOOLEAN : Finally(rmOk)
  \/ \E ok \in BOOLEAN : PersistUpdate(ok)
  \/ \E ok \in BOOLEAN : PersistInsert(ok)
  \/ \E ok \in BOOLEAN : MarkFailed(ok)
  \/ Respond200
  \/ Respond500

ScanSpec == ScanInit /\ [][ScanNext]_vars

\* ------------------------------------------------------ one adapter call
\* The command line ends in `|| true`: the engine's exit status is lost
\* and stdout is parsed whatever it was.
IgnoresExit(t) == t \in {"gitleaks", "checkov"}

\* `if (!stdout.trim()) return []` stands before JSON.parse.
ChecksEmpty(t) == t \in {"gitleaks", "checkov", "trivy"}

\* JSON of another shape than the adapter reads: semgrep and opengrep read
\* results.results?.map(...) || [], checkov skips what has no
\* failed_checks, trivy returns [] without Results; gitleaks calls
\* results.map on it, which throws.
ToleratesShape(t) == t # "gitleaks"

\* What the engine of adapter t can do once called on directory root:
\* not be installed; be killed at the timeout or overflow maxBuffer; exit
\* zero or not; print nothing, something that is not JSON, JSON of another
\* shape, findings of which one lacks a field the mapping dereferences, or
\* findings.
EngineOutcomes(t, root) ==
  {NotInstalled}
  \cup
  {[installed |-> TRUE, signal |-> g, exitOk |-> x, stdout |-> k, out |-> <<>>] :
     g \in {"none", "timeout", "overBuffer"}, x \in BOOLEAN,
     k \in {"empty", "garbage", "misshapen"}}
  \cup
  {[installed |-> TRUE, signal |-> g, exitOk |-> x, stdout |-> k, out |-> o] :
     g \in {"none", "timeout", "overBuffer"}, x \in BOOLEAN,
     k \in {"badFinding", "findings"},
     o \in NativeOutputs(t, root, MaxRunFindings) \ {<<>>}}

OnUnparseableThrows(t) == [st |-> "rejected", issues |-> <<>>]

\* JSON.parse or the mapping throws inside the adapter's try.
OnUnparseable(t) == OnAdapterError(t)

\* run<Engine>(repoPath), from the availability check to the return.
RunAdapter(t, e) ==
  IF ~e.installed THEN [st |-> "missing", issues |-> <<>>]
  ELSE IF e.signal = "timeout" THEN [st |-> "timeout", issues |-> <<>>]
  ELSE IF e.signal = "overBuffer" \/ (~e.exitOk /\ ~IgnoresExit(t)) THEN OnAdapterError(t)
  ELSE IF e.stdout = "empty"
       THEN IF ChecksEmpty(t) THEN [st |-> "ok", issues |-> <<>>] ELSE OnUnparseable(t)
  ELSE IF e.stdout = "garbage" THEN OnUnparseable(t)
  ELSE IF e.stdout = "misshapen"
       THEN IF ToleratesShape(t) THEN [st |-> "ok", issues |-> <<>>] ELSE OnUnparseable(t)
  ELSE IF e.stdout = "badFinding" THEN OnUnparseable(t)
  ELSE [st |-> "ok", issues |-> ParseOutput(t, e.out)]

\* One adapter is called on the job directory and resolves.
AdapterRuns(t, e) ==
  /\ engine = NoEngine
  /\ engine' = [engine EXCEPT ![t] = e]
  /\ ad' = [ad EXCEPT ![t] = RunAdapter(t, e)]
  /\ invoked' = invoked \cup EngineStarted(t, e)
  /\ killed' = IF e.installed /\ e.signal = "timeout" THEN killed \cup KilledOnTimeout(t)
               ELSE killed
  /\ UNCHANGED <<pc, seq, deliveryVars, fsVars, scanRoot, handle, releases, rmFailed, timer,
                 pending, storeVars, probe, curl, inst, conn, auxVars>>

AdapterNext == \E t \in ToolSet : \E e \in EngineOutcomes(t, JobDirPath) : AdapterRuns(t, e)

AdapterSpec == Init /\ [][AdapterNext]_vars

\* ------------------------------------------------- installation tokens
\* Installation rows and call times: the row may be absent; accessToken is
\* null, empty or a token; tokenExpiresAt is null, written <<>>, or a time
\* x, written <<x>>; the id string may fail parseInt.
InstRows ==
  {[kind |-> "call", found |-> FALSE, idNumeric |-> TRUE, now |-> 0,
    cachedToken |-> "null", cachedExpiry |-> <<>>,
    accessToken |-> "null", tokenExpiresAt |-> <<>>,
    exchanges |-> 0, writes |-> 0, returned |-> "none", cause |-> "none"]}
  \cup
  {[kind |-> "call", found |-> TRUE, idNumeric |-> n, now |-> c,
    cachedToken |-> a, cachedExpiry |-> x,
    accessToken |-> a, tokenExpiresAt |-> x,
    exchanges |-> 0, writes |-> 0, returned |-> "none", cause |-> "none"] :
     n \in BOOLEAN, c \in 0..MaxClock, a \in {"null", "", "old"},
     x \in {<<>>} \cup {<<m>> : m \in 0..(MaxClock + FiveMinutes + 1)}}

\* What the exchange with GitHub can end with: no credentials or a bad app
\* id (thrown before the request), a network error, a non-JSON body, a
\* non-2xx status, a body without token or expires_at, or a token.
ExchangeOutcomes ==
  {"misconfigured", "badAppId", "network", "nonJson", "non2xx", "missingFields", "ok"}

\* Outcomes thrown before fetch is called.
BeforeFetch == {"misconfigured", "badAppId"}

FreshWithoutMargin(r) ==
  /\ r.accessToken \notin {"null", ""}
  /\ r.tokenExpiresAt # <<>>
  /\ r.tokenExpiresAt[1] > r.now

\* installation.accessToken && tokenExpiresAt &&
\* tokenExpiresAt > now + 5 * 60 * 1000
Fresh(r) ==
  /\ r.accessToken \notin {"null", ""}
  /\ r.tokenExpiresAt # <<>>
  /\ r.tokenExpiresAt[1] > r.now + FiveMinutes

\* getInstallationToken on row r, the exchange ending with x and the
\* update of the row succeeding or not.
TokenResult(r, x, wOk) ==
  IF ~r.found THEN [r EXCEPT !.kind = "threw", !.cause = "notFound"]
  ELSE IF Fresh(r) THEN [r EXCEPT !.kind = "returned", !.returned = r.accessToken]
  ELSE IF ~r.idNumeric THEN [r EXCEPT !.kind = "threw", !.cause = "invalidId"]
  ELSE IF x \in BeforeFetch THEN [r EXCEPT !.kind = "threw", !.cause = x]
  ELSE IF x # "ok" THEN [r EXCEPT !.kind = "threw", !.cause = x, !.exchanges = 1]
  ELSE IF ~wOk THEN [r EXCEPT !.kind = "threw", !.cause = "store", !.exchanges = 1]
  ELSE [r EXCEPT !.kind = "returned", !.returned = "new", !.exchanges = 1, !.writes = 1,
                 !.accessToken = "new", !.tokenExpiresAt = <<r.now + TokenLifetime>>]

TokenFrame ==
  UNCHANGED <<pc, seq, deliveryVars, fsVars, runVars, storeVars, probe, engine, invoked,
              curl, conn, auxVars>>

\* processJob calls getInstallationToken: the row of the installation and
\* the time are what they are.
TokenCall(r) ==
  /\ inst = NoInst
  /\ inst' = r
  /\ TokenFrame

GetInstallationToken(x, wOk) ==
  /\ inst.kind = "call"
  /\ inst' = TokenResult(inst, x, wOk)
  /\ TokenFrame

TokenNext ==
  \/ \E r \in InstRows : TokenCall(r)
  \/ \E x \in ExchangeOutcomes, wOk \in BOOLEAN : GetInstallationToken(x, wOk)

TokenSpec == Init /\ [][TokenNext]_vars

\* The path stripping of the report, applied to any path.
PathChars == {"/", "t", "w", "a"}

StripInit ==
  /\ pc = "idle"
  /\ seq = 0
  /\ body = NoBody
  /\ job = NoJob
  /\ token = FALSE
  /\ response = 0
  /\ failedAt = "none"
  /\ wrote = <<>>
  /\ dirs = {}
  /\ zips = {}
  /\ scanRoot = "flat"
  /\ handle = 0
  /\ releases = 0
  /\ rmFailed = FALSE
  /\ timer = "none"
  /\ ad = IdleAdapters
  /\ killed = {}
  /\ pending = NoPending
  /\ scans = [s \in ScanIds |-> NewScanRow]
  /\ issueRows = <<>>
  /\ probe \in {[filePath |-> p, tempDir |-> d, cleaned |-> <<>>, done |-> FALSE] :
                  p \in BSeq(PathChars, MaxPathLen), d \in {JobDirPath, WrapperPath}}
  /\ engine = NoEngine
  /\ invoked = {}
  /\ curl = NoCurl
  /\ inst = NoInst
  /\ conn = NoConn
  /\ temp = NoTemp
  /\ dl = NoDl
  /\ tree = NoTree
  /\ mapping = NoMapping
  /\ LateInit

ApplyStrip ==
  /\ ~probe.done
  /\ probe' = [probe EXCEPT !.cleaned = StripTempDir(probe.filePath, probe.tempDir),
                            !.done = TRUE]
  /\ UNCHANGED <<pc, seq, deliveryVars, fsVars, runVars, storeVars, extVars>>

StripNext == ApplyStrip

StripSpec == StripInit /\ [][StripNext]_vars

\* ------------------------------------------------------------- server
\* The HTTP server with several requests open at once: Node calls the
\* request handler for every request as it arrives, and a job's awaits
\* give the event loop back, so the steps of open requests interleave. A
\* job is followed by stage only; its report is one without findings.
MaxRequests == 3

Methods == {"GET", "POST"}

Urls == {"/health", "/"}

RouteWithoutHealth(method, url) ==
  IF url = "/" /\ method = "POST" THEN "job" ELSE "notFound"

\* The handler's dispatch: the health check first, then the worker
\* endpoint, then 404.
Route(method, url) ==
  IF url = "/health" /\ method = "GET" THEN "health"
  ELSE IF url = "/" /\ method = "POST" THEN "job"
  ELSE "notFound"

\* Reports without findings, as the server model persists them.
EmptyReports == {r \in FlatResults : r.kind = "report" /\ Len(r.issues) = 0}

ServerFrame ==
  UNCHANGED <<pc, seq, body, job, token, response, failedAt, wrote, zips, scanRoot,
              handle, releases, rmFailed, timer, ad, killed, pending, issueRows, probe,
              engine, invoked, curl, inst, auxVars>>

Answer(c, i, status) == [c EXCEPT ![i].stage = "answered", ![i].status = status]

AtStage(i, stage) ==
  /\ i \in DOMAIN conn
  /\ Route(conn[i].method, conn[i].url) = "job"
  /\ conn[i].stage = stage

\* A request arrives: /health and unknown endpoints are answered in the
\* handler call itself, a job waits for its body.
Request(method, url) ==
  /\ Len(conn) < MaxRequests
  /\ LET kind == Route(method, url)
         new == [method |-> method, url |-> url, stage |-> "receiving", status |-> 0]
         c == Append(conn, new)
     IN conn' = CASE kind = "health" -> Answer(c, Len(c), 200)
                  [] kind = "notFound" -> Answer(c, Len(c), 404)
                  [] OTHER -> c
  /\ UNCHANGED <<dirs, scans>>
  /\ ServerFrame

\* req.on('end'): JSON.parse, then processJob starts.
JobParse(i, ok) ==
  /\ AtStage(i, "receiving")
  /\ conn' = IF ok THEN [conn EXCEPT ![i].stage = "credential"] ELSE Answer(conn, i, 500)
  /\ UNCHANGED <<dirs, scans>>
  /\ ServerFrame

\* The token of the job, of its installation, of the repository's
\* installation, or none; a throw goes to processJob's catch.
JobCredential(i, ok) ==
  /\ AtStage(i, "credential")
  /\ conn' = [conn EXCEPT ![i].stage = IF ok THEN "acquiring" ELSE "failing"]
  /\ UNCHANGED <<dirs, scans>>
  /\ ServerFrame

\* downloadRepoAsZip: on success the directory exists, on failure it has
\* been removed again.
JobAcquire(i, ok) ==
  /\ AtStage(i, "acquiring")
  /\ conn' = [conn EXCEPT ![i].stage = IF ok THEN "scanning" ELSE "failing"]
  /\ dirs' = IF ok THEN dirs \cup {i} ELSE dirs
  /\ UNCHANGED scans
  /\ ServerFrame

\* The adapters settle, the report is built, the finally block removes the
\* directory.
JobScan(i, ok) ==
  /\ AtStage(i, "scanning")
  /\ conn' = [conn EXCEPT ![i].stage = IF ok THEN "persisting" ELSE "failing"]
  /\ dirs' = dirs \ {i}
  /\ UNCHANGED scans
  /\ ServerFrame

\* The 'completed' update, then the answer 200; a throw goes to the catch.
JobPersist(i, res, ok) ==
  /\ AtStage(i, "persisting")
  /\ res \in EmptyReports
  /\ IF ok
     THEN /\ scans' = [id \in ScanIds |-> CompletedRow(res)]
          /\ conn' = Answer(conn, i, 200)
     ELSE /\ conn' = [conn EXCEPT ![i].stage = "failing"]
          /\ UNCHANGED scans
  /\ UNCHANGED dirs
  /\ ServerFrame

\* processJob's catch marks the record failed (or fails to), the handler's
\* catch answers 500.
JobFail(i, ok) ==
  /\ AtStage(i, "failing")
  /\ scans' = IF ok THEN [id \in ScanIds |-> MarkedFailed(scans[id])] ELSE scans
  /\ conn' = Answer(conn, i, 500)
  /\ UNCHANGED dirs
  /\ ServerFrame

ServerNext ==
  \/ \E method \in Methods, url \in Urls : Request(method, url)
  \/ \E i \in 1..MaxRequests, ok \in BOOLEAN : JobParse(i, ok)
  \/ \E i \in 1..MaxRequests, ok \in BOOLEAN : JobCredential(i, ok)
  \/ \E i \in 1..MaxRequests, ok \in BOOLEAN : JobAcquire(i, ok)
  \/ \E i \in 1..MaxRequests, ok \in BOOLEAN : JobScan(i, ok)
  \/ \E i \in 1..MaxRequests, res \in EmptyReports, ok \in BOOLEAN : JobPersist(i, res, ok)
  \/ \E i \in 1..MaxRequests, ok \in BOOLEAN : JobFail(i, ok)

ServerSpec == Init /\ [][ServerNext]_vars

\* -------------------------------------------------------------- sweep
\* cleanupOldTempFiles over the entries of .temp, directories and archives
\* alike. Time is counted in half hours; an age is the time since the
\* entry's mtime, kept up to the first value over the threshold.
MaxEntries == 2

OneHour == 2

SweepInterval == 1

TempEntries == 1..MaxEntries

OldAge == OneHour + 1

OldAtThreshold(age) == age >= OneHour

\* stats.mtimeMs < Date.now() - 60 * 60 * 1000
Old(age) == age > OneHour

Restrict(f, S) == [e \in S |-> f[e]]

\* The entries one sweep removes: none when readdir throws; otherwise the
\* old ones, but for those whose stat or rm throws, which the catch inside
\* the loop logs before the loop goes on.
SweepRemoves(age, readdirOk, failing) ==
  IF readdirOk THEN {e \in DOMAIN age : Old(age[e]) /\ e \notin failing} ELSE {}

SweepFrame ==
  UNCHANGED <<pc, seq, deliveryVars, fsVars, runVars, storeVars, probe, engine, invoked,
              curl, inst, conn, dl, tree, mapping, lateVars>>

\* The process starts with whatever earlier processes left in .temp, and
\* the module's load calls cleanupOldTempFiles at once.
SweepInit ==
  /\ pc = "idle" /\ seq = 0 /\ body = NoBody /\ job = NoJob /\ token = FALSE
  /\ response = 0 /\ failedAt = "none" /\ wrote = <<>>
  /\ dirs = {} /\ zips = {} /\ scanRoot = "flat" /\ handle = 0 /\ releases = 0
  /\ rmFailed = FALSE /\ timer = "none" /\ ad = IdleAdapters /\ killed = {}
  /\ pending = NoPending /\ scans = [s \in ScanIds |-> NewScanRow] /\ issueRows = <<>>
  /\ probe = NoProbe /\ engine = NoEngine /\ invoked = {} /\ curl = NoCurl
  /\ inst = NoInst /\ conn = NoConn /\ dl = NoDl /\ tree = NoTree /\ mapping = NoMapping
  /\ LateInit
  /\ \E S \in SUBSET TempEntries : \E a \in [S -> 0..OldAge] :
       temp = [age |-> a, since |-> SweepInterval, readdirOk |-> TRUE,
               failed |-> {}, removed |-> {}]

\* A run creates its directory or curl its archive.
TempCreate(e) ==
  /\ e \notin DOMAIN temp.age
  /\ temp' = [temp EXCEPT !.age = [x \in DOMAIN temp.age \cup {e} |->
                                     IF x = e THEN 0 ELSE temp.age[x]]]
  /\ SweepFrame

\* A run removes its own entry.
TempRelease(e) ==
  /\ e \in DOMAIN temp.age
  /\ temp' = [temp EXCEPT !.age = Restrict(temp.age, DOMAIN temp.age \ {e})]
  /\ SweepFrame

\* Half an hour passes.
TempTick ==
  /\ temp.since < SweepInterval
  /\ temp' = [temp EXCEPT !.since = @ + 1,
                          !.age = [e \in DOMAIN temp.age |->
                                     IF temp.age[e] < OldAge THEN temp.age[e] + 1 ELSE OldAge]]
  /\ SweepFrame

\* cleanupOldTempFiles, at load and from setInterval.
Sweep(readdirOk, failing) ==
  /\ temp.since = SweepInterval
  /\ failing \subseteq DOMAIN temp.age
  /\ LET gone == SweepRemoves(temp.age, readdirOk, failing)
     IN temp' = [age |-> Restrict(temp.age, DOMAIN temp.age \ gone),
                 since |-> 0,
                 readdirOk |-> readdirOk,
                 failed |-> IF readdirOk THEN failing ELSE {},
                 removed |-> gone]
  /\ SweepFrame

\* A sweep in which neither readdir nor the stat and rm of entry e throw.
SweepSparing(e) ==
  \E failing \in SUBSET (TempEntries \ {e}) : Sweep(TRUE, failing)

SweepNext ==
  \/ \E e \in TempEntries : TempCreate(e)
  \/ \E e \in TempEntries : TempRelease(e)
  \/ TempTick
  \/ \E readdirOk \in BOOLEAN, failing \in SUBSET TempEntries : Sweep(readdirOk, failing)

\* Time passes, the interval timer fires, and no entry's removal fails in
\* every sweep for ever.
SweepSpec ==
  /\ SweepInit /\ [][SweepNext]_vars
  /\ WF_vars(TempTick)
  /\ WF_vars(\E readdirOk \in BOOLEAN, failing \in SUBSET TempEntries : Sweep(readdirOk, failing))
  /\ \A e \in TempEntries : SF_vars(SweepSparing(e))

\* ----------------------------------------------------------- download
\* One download followed from the start of curl to the unzip or to the
\* answer 500. Sizes are in GiB, rounded up; a header is the start of the
\* payload as a sequence of marks, "PK" standing for the bytes 0x50 0x4B.
MaxPayload == 6

MaxRepoSize == 5

\* stdout of curl -w "%{http_code}", character by character.
HttpCodes == {<<"2", "0", "0">>, <<"2", "0", "4">>, <<"4", "0", "4">>, <<"0", "0", "0">>}

Headers ==
  {<<"PK">>, <<"<!DOCTYPE", "<html">>, <<"<!doctype", "<html">>, <<"<HTML">>,
   <<"{">>, <<"{", "<html">>}

PayloadSizes == {0, 1, MaxRepoSize} \cup (MaxRepoSize + 1)..MaxPayload

\* What the server and curl can do: curl exits 0 or not, with the status
\* of the last response, the size and the start of the body; curl makes
\* the output file at the first byte, and for an empty body or not.
Transfers ==
  {[kind |-> "download", curlOk |-> c, http |-> h, size |-> n,
    header |-> IF n = 0 THEN <<>> ELSE hd, created |-> cr,
    written |-> 0, stage |-> "curl", unzipRan |-> FALSE, diag |-> {}] :
     c \in BOOLEAN, h \in HttpCodes, n \in PayloadSizes, hd \in Headers, cr \in BOOLEAN}

\* httpCode.startsWith('2')
StartsWith2(code) == Len(code) >= 1 /\ code[1] = "2"

\* stat(zipPath) succeeds
FileExists(d) == d.created \/ d.written > 0

IsValidZipAnyHeader(header) == TRUE

\* zipHeader[0] === 0x50 && zipHeader[1] === 0x4B; the length test is on
\* the 200-byte buffer and always passes.
IsValidZip(header) == Len(header) >= 1 /\ header[1] = "PK"

\* content.includes('<!DOCTYPE') || content.includes('<html')
LooksHtml(header) == Includes(header, <<"<!DOCTYPE">>) \/ Includes(header, <<"<html">>)

\* The checks of the download's try block in the order of the code: the
\* first that fails throws.
DownloadKind(d) ==
  CASE ~d.curlOk -> "curlError"
    [] ~StartsWith2(d.http) -> "httpError"
    [] ~FileExists(d) -> "missing"
    [] d.written = 0 -> "empty"
    [] d.written > MaxRepoSize -> "tooLarge"
    [] ~IsValidZip(d.header) -> "notZip"
    [] OTHER -> "zip"

\* What the failure says, in the error thrown and in the log.
Diagnostics(d) ==
  LET k == DownloadKind(d)
  IN IF k = "notZip" /\ LooksHtml(d.header) THEN {"notZip", "html"} ELSE {k}

DlFrame ==
  UNCHANGED <<seq, body, job, token, response, wrote, releases, timer,
              ad, killed, pending, storeVars, probe, engine, invoked, curl, inst, conn,
              temp, tree, mapping, lateVars>>

\* downloadRepoAsZip has made the directory and starts curl.
DlInit ==
  /\ pc = "acq_download" /\ seq = 1 /\ body = NoBody
  /\ job \in {[scanId |-> s, repoUrl |-> "ok"] : s \in ScanIds}
  /\ token = FALSE /\ response = 0 /\ failedAt = "none" /\ wrote = <<>>
  /\ dirs = {seq} /\ zips = {} /\ scanRoot = "flat" /\ handle = 0 /\ releases = 0
  /\ rmFailed = FALSE /\ timer = "none" /\ ad = IdleAdapters /\ killed = {}
  /\ pending = NoPending /\ scans = [s \in ScanIds |-> NewScanRow] /\ issueRows = <<>>
  /\ probe = NoProbe /\ engine = NoEngine /\ invoked = {}
  /\ curl \in {CurlCommand(tok) : tok \in BOOLEAN}
  /\ inst = NoInst /\ conn = NoConn /\ temp = NoTemp /\ tree = NoTree /\ mapping = NoMapping
  /\ LateInit
  /\ dl \in Transfers

\* curl writes the next part of the body to the archive path.
DlWrite ==
  /\ pc = "acq_download" /\ dl.stage = "curl"
  /\ dl.written < dl.size
  /\ dl' = [dl EXCEPT !.written = @ + 1]
  /\ zips' = zips \cup {seq}
  /\ UNCHANGED <<pc, dirs, rmFailed, failedAt, scanRoot, handle>>
  /\ DlFrame

\* curl exits: with 0 once the body is written, otherwise at any point.
DlCurlExit ==
  /\ pc = "acq_download" /\ dl.stage = "curl"
  /\ dl.curlOk => dl.written = dl.size
  /\ dl' = [dl EXCEPT !.stage = "validate"]
  /\ zips' = IF FileExists(dl) THEN zips \cup {seq} ELSE zips
  /\ UNCHANGED <<pc, dirs, rmFailed, failedAt, scanRoot, handle>>
  /\ DlFrame

\* The checks run; a failing one goes through the inner catch (rm of the
\* archive, errors ignored) and the outer one (rm of the directory, then
\* of the archive).
DlValidate(rmZipOk, rmOk) ==
  /\ pc = "acq_download" /\ dl.stage = "validate"
  /\ IF DownloadKind(dl) = "zip"
     THEN /\ rmZipOk /\ rmOk
          /\ pc' = "acq_extract"
          /\ dl' = [dl EXCEPT !.stage = "unzip"]
          /\ UNCHANGED <<dirs, zips, rmFailed, failedAt>>
     ELSE /\ dl' = [dl EXCEPT !.stage = "failed", !.diag = Diagnostics(dl)]
          /\ dirs' = Rm(dirs, seq, rmOk)
          /\ zips' = IF rmZipOk \/ rmOk THEN zips \ {seq} ELSE zips
          /\ rmFailed' = (rmFailed \/ RmFails(dirs, seq, rmOk)
                            \/ (seq \in zips /\ ~rmZipOk /\ ~rmOk))
          /\ failedAt' = "acquire"
          /\ pc' = "catch"
  /\ UNCHANGED <<scanRoot, handle>>
  /\ DlFrame

\* unzip -q runs on the archive; readdir and the flatten follow.
DlUnzip(r, rmOk) ==
  /\ pc = "acq_extract" /\ dl.stage = "unzip"
  /\ ExtractOutcome(r, rmOk)
  /\ dl' = [dl EXCEPT !.stage = "done", !.unzipRan = TRUE]
  /\ DlFrame

DownloadNext ==
  \/ DlWrite
  \/ DlCurlExit
  \/ \E rmZipOk \in BOOLEAN, rmOk \in BOOLEAN : DlValidate(rmZipOk, rmOk)
  \/ \E r \in {"unzipError", "noFiles", "flat", "nested"}, rmOk \in BOOLEAN : DlUnzip(r, rmOk)
  \/ \E ok \in BOOLEAN : MarkFailed(ok)
  \/ Respond500

DownloadSpec == DlInit /\ [][DownloadNext]_vars

\* ------------------------------------------------------------ flatten
\* unzip has left the wrapper directory in the job directory; its
\* children are moved up one by one, then the wrapper is removed.
MaxChildren == 3

WrapperName == "w"

ChildNames == {"a", "b", "c", WrapperName}

\* readdir(repoPath): the wrapper's entries, in the order readdir gives.
WrapperListings ==
  {c \in BSeq(ChildNames, MaxChildren) : \A i, j \in 1..Len(c) : i # j => c[i] # c[j]}

\* rename(wrapper/name, tempDir/name) fails when tempDir/name is a
\* directory that is not empty, as the wrapper itself is.
RenameWorks(name, atRoot) == name # WrapperName

FlattenFrame ==
  UNCHANGED <<seq, body, job, token, response, wrote, releases, timer, ad, killed, pending,
              storeVars, probe, engine, invoked, curl, inst, conn, temp, dl, mapping, lateVars>>

FlattenInit ==
  /\ pc = "acq_extract" /\ seq = 1 /\ body = NoBody
  /\ job \in {[scanId |-> s, repoUrl |-> "ok"] : s \in ScanIds}
  /\ token = FALSE /\ response = 0 /\ failedAt = "none" /\ wrote = <<>>
  /\ dirs = {seq} /\ zips = {seq} /\ scanRoot = "flat" /\ handle = 0 /\ releases = 0
  /\ rmFailed = FALSE /\ timer = "none" /\ ad = IdleAdapters /\ killed = {}
  /\ pending = NoPending /\ scans = [s \in ScanIds |-> NewScanRow] /\ issueRows = <<>>
  /\ probe = NoProbe /\ engine = NoEngine /\ invoked = {} /\ curl = NoCurl
  /\ inst = NoInst /\ conn = NoConn /\ temp = NoTemp /\ dl = NoDl /\ mapping = NoMapping
  /\ LateInit
  /\ \E c \in WrapperListings :
       tree = [kind |-> "tree", listing |-> c, inWrapper |-> {c[i] : i \in 1..Len(c)},
               atRoot |-> {}, wrapper |-> TRUE, next |-> 1, stage |-> "readdir",
               path |-> "none"]

\* readdir(repoPath): an empty wrapper skips the flatten; the path stays
\* the wrapper.
FlReaddir ==
  /\ pc = "acq_extract" /\ tree.stage = "readdir"
  /\ tree' = IF Len(tree.listing) = 0
             THEN [tree EXCEPT !.stage = "flattened", !.path = "wrapper"]
             ELSE [tree EXCEPT !.stage = "rename"]
  /\ UNCHANGED <<pc, dirs, zips, scanRoot, handle, rmFailed, failedAt>>
  /\ FlattenFrame

\* One turn of the loop: the next child moves up, or rename throws and
\* the catch keeps the wrapper as the path.
FlRename ==
  /\ pc = "acq_extract" /\ tree.stage = "rename"
  /\ tree.next <= Len(tree.listing)
  /\ LET name == tree.listing[tree.next]
     IN tree' = IF RenameWorks(name, tree.atRoot)
                THEN [tree EXCEPT !.inWrapper = @ \ {name}, !.atRoot = @ \cup {name},
                                  !.next = @ + 1]
                ELSE [tree EXCEPT !.stage = "flattened", !.path = "wrapper"]
  /\ UNCHANGED <<pc, dirs, zips, scanRoot, handle, rmFailed, failedAt>>
  /\ FlattenFrame

\* rm(repoPath) after the loop: repoRootPath = tempDir when it succeeds;
\* when it throws the catch keeps the wrapper as the path.
FlRemoveWrapper(rmOk) ==
  /\ pc = "acq_extract" /\ tree.stage = "rename"
  /\ tree.next > Len(tree.listing)
  /\ tree' = IF rmOk
             THEN [tree EXCEPT !.stage = "flattened", !.path = "root", !.wrapper = FALSE]
             ELSE [tree EXCEPT !.stage = "flattened", !.path = "wrapper"]
  /\ UNCHANGED <<pc, dirs, zips, scanRoot, handle, rmFailed, failedAt>>
  /\ FlattenFrame

\* rm(zipPath), then the handle is returned with the path.
FlReturn(rmOk) ==
  /\ pc = "acq_extract" /\ tree.stage = "flattened"
  /\ tree' = [tree EXCEPT !.stage = "returned"]
  /\ ExtractOutcome(IF tree.path = "root" THEN "flat" ELSE "nested", rmOk)
  /\ FlattenFrame

FlattenNext ==
  \/ FlReaddir
  \/ FlRename
  \/ \E rmOk \in BOOLEAN : FlRemoveWrapper(rmOk)
  \/ \E rmOk \in BOOLEAN : FlReturn(rmOk)

FlattenSpec == FlattenInit /\ [][FlattenNext]_vars

\* ---------------------------------------------------- severity calls
\* One finding of one engine, mapped by its adapter.
MaxClassWords == 2

ClassWords == {"checks", "CRITICAL", "HIGH", "LOW"}

\* The severity field of a finding as each engine writes it: a word for
\* semgrep, opengrep and trivy, the check_class for checkov, nothing for
\* gitleaks.
NativeSeverities(t) ==
  CASE t = "checkov" -> BSeq(ClassWords, MaxClassWords)
    [] t = "gitleaks" -> {"none"}
    [] OTHER -> SeverityWords

MappingFrame ==
  UNCHANGED <<pc, seq, deliveryVars, fsVars, runVars, storeVars, probe, engine, invoked,
              curl, inst, conn, temp, dl, tree, lateVars>>

MappingInit ==
  /\ pc = "idle" /\ seq = 0 /\ body = NoBody /\ job = NoJob /\ token = FALSE
  /\ response = 0 /\ failedAt = "none" /\ wrote = <<>>
  /\ dirs = {} /\ zips = {} /\ scanRoot = "flat" /\ handle = 0 /\ releases = 0
  /\ rmFailed = FALSE /\ timer = "none" /\ ad = IdleAdapters /\ killed = {}
  /\ pending = NoPending /\ scans = [s \in ScanIds |-> NewScanRow] /\ issueRows = <<>>
  /\ probe = NoProbe /\ engine = NoEngine /\ invoked = {} /\ curl = NoCurl
  /\ inst = NoInst /\ conn = NoConn /\ temp = NoTemp /\ dl = NoDl /\ tree = NoTree
  /\ LateInit
  /\ \E t \in ToolSet : \E n \in NativeSeverities(t) :
       mapping = [kind |-> "finding", tool |-> t, native |-> <<n>>, mapped |-> "none"]

\* The adapter builds the SecurityIssue of the finding.
MapFinding ==
  /\ mapping.kind = "finding"
  /\ mapping' = [mapping EXCEPT
       !.kind = "issue",
       !.mapped = ToIssue(mapping.tool,
                          [severity |-> mapping.native[1], hasPath |-> TRUE,
                           path |-> <<"a">>]).severity]
  /\ MappingFrame

MappingNext == MapFinding

MappingSpec == MappingInit /\ [][MappingNext]_vars

\* ------------------------------------------------------------ fan-out
\* runSecurityScan from the handle to the finally block, with the job's
\* skipTools, the promises in the order they are pushed and the adapters
\* in the order they complete.
MaxFanFindings == 3

\* What an engine prints for a scan of root: findings with the engine's
\* own severity word, on two files for semgrep and on one for the others.
FanFindings(t, root) ==
  {[severity |-> CASE t = "semgrep" -> "ERROR" [] t = "opengrep" -> "WARNING"
                   [] t = "gitleaks" -> "none" [] t = "checkov" -> <<"checks", "LOW">>
                   [] OTHER -> "UNKNOWN",
    hasPath |-> TRUE, path |-> root \o <<"/", x>>] :
     x \in IF t = "semgrep" THEN {"a", "b"} ELSE {"a"}}

ToolsToRunAll(skip) == Tools

\* ['semgrep', ...].filter((tool) => !options.skipTools?.includes(tool))
ToolsToRun(skip) == SelectSeq(Tools, LAMBDA t : t \notin skip)

RECURSIVE Concat(_, _)
\* The issues of the promises named in order, one list after the other.
Concat(a, order) ==
  IF order = <<>> THEN <<>> ELSE Settled(a[Head(order)]) \o Concat(a, Tail(order))

PromiseAllFlatByCompletion(a, scanPromises) == Concat(a, fan.scannerResults)

\* (await Promise.all(scanPromises)).flat(): Promise.all keeps the order
\* of scanPromises, whatever the order of settlement.
PromiseAllFlat(a, scanPromises) == Concat(a, scanPromises)

\* cleanedIssues, summary and result of the try block, for any toolsToRun.
ReportOf(all, tempDir, toolsToRun) ==
  IF \E i \in 1..Len(all) : ~all[i].hasPath
  THEN [kind |-> "error"]
  ELSE [kind |-> "report",
        issues |-> CleanedIssues(all, tempDir),
        summary |-> Summary(CleanedIssues(all, tempDir)),
        toolsUsed |-> toolsToRun]

Range(q) == {q[i] : i \in 1..Len(q)}

FanInit ==
  /\ pc = "acquired" /\ seq = 1 /\ body = NoBody
  /\ job \in {[scanId |-> s, repoUrl |-> "ok"] : s \in ScanIds}
  /\ token = FALSE /\ response = 0 /\ failedAt = "none" /\ wrote = <<>>
  /\ dirs = {seq} /\ zips = {} /\ scanRoot = "flat" /\ handle = 1 /\ releases = 0
  /\ rmFailed = FALSE /\ timer = "none" /\ ad = IdleAdapters /\ killed = {}
  /\ pending = NoPending /\ scans = [s \in ScanIds |-> NewScanRow] /\ issueRows = <<>>
  /\ probe = NoProbe /\ engine = NoEngine /\ invoked = {} /\ curl = NoCurl
  /\ inst = NoInst /\ conn = NoConn /\ temp = NoTemp /\ dl = NoDl /\ tree = NoTree
  /\ mapping = NoMapping /\ race = NoRace /\ mask = NoMask /\ area = NoArea
  /\ \E skip \in SUBSET ToolSet :
       fan = [kind |-> "run", skipTools |-> skip, scanPromises |-> <<>>,
              scannerResults |-> <<>>]

FanFrame ==
  UNCHANGED <<seq, deliveryVars, fsVars, scanRoot, handle, releases, rmFailed, storeVars,
              probe, curl, inst, conn, temp, dl, tree, mapping, race, mask, area>>

\* The timer is set; each adapter of toolsToRun is called and its promise
\* pushed, in the order of the if statements, before the first await.
FanStart ==
  /\ pc = "acquired" /\ fan.kind = "run"
  /\ timer' = "armed"
  /\ ad' = [t \in ToolSet |->
              IF t \in Range(ToolsToRun(fan.skipTools))
              THEN [st |-> "running", issues |-> <<>>] ELSE ad[t]]
  /\ fan' = [fan EXCEPT !.scanPromises = ToolsToRun(fan.skipTools)]
  /\ pc' = "adapters"
  /\ UNCHANGED <<killed, invoked, pending, engine>>
  /\ FanFrame

\* What the engine of a started adapter does here: it prints something
\* that is not JSON, JSON without findings, or findings.
FanEngines(t, root) ==
  {[installed |-> TRUE, signal |-> "none", exitOk |-> TRUE, stdout |-> k, out |-> <<>>] :
     k \in {"garbage", "misshapen"}} \cup
  {[installed |-> TRUE, signal |-> "none", exitOk |-> TRUE, stdout |-> "findings", out |-> o] :
     o \in BSeq(FanFindings(t, root), MaxFanFindings) \ {<<>>}}

\* An adapter's promise settles and its .then pushes to scannerResults.
FanSettle(t, e) ==
  /\ pc = "adapters" /\ fan.kind = "run"
  /\ ad[t].st = "running"
  /\ Len(e.out) <= MaxFanFindings - Len(AllIssues(ad))
  /\ engine' = [engine EXCEPT ![t] = e]
  /\ ad' = [ad EXCEPT ![t] = RunAdapter(t, e)]
  /\ fan' = [fan EXCEPT !.scannerResults = Append(@, t)]
  /\ invoked' = invoked \cup EngineStarted(t, e)
  /\ UNCHANGED <<pc, timer, killed, pending>>
  /\ FanFrame

\* Promise.all resolves once every pushed promise has: the report is
\* built and the finally block clears the timer.
FanAggregate ==
  /\ pc = "adapters" /\ fan.kind = "run"
  /\ \A t \in Range(fan.scanPromises) : ad[t].st \notin {"idle", "running"}
  /\ pending' = ReportOf(PromiseAllFlat(ad, fan.scanPromises), TempDirPath,
                         ToolsToRun(fan.skipTools))
  /\ timer' = ClearTimeout(timer)
  /\ pc' = "finally"
  /\ UNCHANGED <<ad, killed, invoked, fan, engine>>
  /\ FanFrame

FanoutNext ==
  \/ FanStart
  \/ \E t \in ToolSet : \E e \in FanEngines(t, TempDirPath) : FanSettle(t, e)
  \/ FanAggregate
  \/ \E rmOk \in BOOLEAN : Finally(rmOk)

FanoutSpec == FanInit /\ [][FanoutNext]_vars

\* ------------------------------------------- concurrent token calls
\* Several getInstallationToken calls for one installation, their awaits
\* interleaved: each reads the row, may exchange, and writes the row. Time
\* is in minutes.
MaxCallers == 2

Callers == 1..MaxCallers

\* The token GitHub issues to the exchange of caller c.
NewTokens == <<"new1", "new2", "new3">>

\* The row as earlier calls left it: no token, or a token with the expiry
\* GitHub gave for it.
RaceRows ==
  {[accessToken |-> "null", tokenExpiresAt |-> <<>>]} \cup
  {[accessToken |-> "old", tokenExpiresAt |-> <<m>>] : m \in 0..(MaxClock + FiveMinutes + 1)}

IdleCall == [stage |-> "idle", now |-> 0, data |-> <<>>, returned |-> "none", at |-> 0,
             cached |-> FALSE, cause |-> "none"]

RaceFrame ==
  UNCHANGED <<pc, seq, deliveryVars, fsVars, runVars, storeVars, probe, engine, invoked,
              curl, inst, conn, temp, dl, tree, mapping, fan, mask, area>>

RaceInit ==
  /\ pc = "idle" /\ seq = 0 /\ body = NoBody /\ job = NoJob /\ token = FALSE
  /\ response = 0 /\ failedAt = "none" /\ wrote = <<>>
  /\ dirs = {} /\ zips = {} /\ scanRoot = "flat" /\ handle = 0 /\ releases = 0
  /\ rmFailed = FALSE /\ timer = "none" /\ ad = IdleAdapters /\ killed = {}
  /\ pending = NoPending /\ scans = [s \in ScanIds |-> NewScanRow] /\ issueRows = <<>>
  /\ probe = NoProbe /\ engine = NoEngine /\ invoked = {} /\ curl = NoCurl
  /\ inst = NoInst /\ conn = NoConn /\ temp = NoTemp /\ dl = NoDl /\ tree = NoTree
  /\ mapping = NoMapping /\ fan = NoFan /\ mask = NoMask /\ area = NoArea
  /\ \E f \in BOOLEAN, n \in BOOLEAN, r \in RaceRows :
       race = [kind |-> "race", found |-> f, idNumeric |-> n, clock |-> 0, row |-> r,
               issued |-> IF r.accessToken = "old"
                          THEN {[token |-> "old", exp |-> r.tokenExpiresAt[1]]} ELSE {},
               call |-> [c \in Callers |-> IdleCall]]

\* findFirst resolves, now is taken and the cache test is made; the cached
\* token is returned in the same turn, a refresh goes on to the exchange.
RaceRead(c) ==
  /\ race.kind = "race" /\ race.call[c].stage = "idle"
  /\ LET r == [accessToken |-> race.row.accessToken,
               tokenExpiresAt |-> race.row.tokenExpiresAt, now |-> race.clock]
         k == race.call[c]
     IN race' = [race EXCEPT !.call[c] =
          IF ~race.found THEN [k EXCEPT !.stage = "threw", !.cause = "notFound"]
          ELSE IF Fresh(r)
               THEN [k EXCEPT !.stage = "returned", !.returned = r.accessToken,
                              !.now = race.clock, !.at = race.clock, !.cached = TRUE]
          ELSE IF ~race.idNumeric THEN [k EXCEPT !.stage = "threw", !.cause = "invalidId"]
          ELSE [k EXCEPT !.stage = "refreshing", !.now = race.clock]]
  /\ RaceFrame

\* requestInstallationToken ends: it throws, or GitHub has issued a token
\* that expires an hour later.
RaceExchange(c, x) ==
  /\ race.kind = "race" /\ race.call[c].stage = "refreshing"
  /\ LET d == [token |-> NewTokens[c], exp |-> race.clock + TokenLifetime]
     IN race' = IF x = "ok"
                THEN [race EXCEPT !.call[c].stage = "exchanged", !.call[c].data = <<d>>,
                                  !.issued = @ \cup {d}]
                ELSE [race EXCEPT !.call[c].stage = "threw", !.call[c].cause = x]
  /\ RaceFrame

RowAfterUpdateTokenOnly(row, d, wOk) ==
  IF wOk THEN [row EXCEPT !.accessToken = d.token] ELSE row

\* .set({accessToken: data.token, tokenExpiresAt: new Date(data.expires_at)}):
\* one statement writes both columns; a failing update writes nothing.
RowAfterUpdate(row, d, wOk) ==
  IF wOk THEN [accessToken |-> d.token, tokenExpiresAt |-> <<d.exp>>] ELSE row

\* The update of the row, then data.token is returned; a failing update
\* throws.
RaceUpdate(c, wOk) ==
  /\ race.kind = "race" /\ race.call[c].stage = "exchanged"
  /\ LET d == race.call[c].data[1]
     IN race' = IF wOk
                THEN [race EXCEPT !.row = RowAfterUpdate(race.row, d, wOk),
                                  !.call[c].stage = "returned", !.call[c].returned = d.token,
                                  !.call[c].at = race.clock]
                ELSE [race EXCEPT !.call[c].stage = "threw", !.call[c].cause = "store"]
  /\ RaceFrame

\* A minute passes.
RaceTick ==
  /\ race.kind = "race" /\ race.clock < MaxClock
  /\ race' = [race EXCEPT !.clock = @ + 1]
  /\ RaceFrame

RaceNext ==
  \/ \E c \in Callers : RaceRead(c)
  \/ \E c \in Callers, x \in ExchangeOutcomes : RaceExchange(c, x)
  \/ \E c \in Callers, wOk \in BOOLEAN : RaceUpdate(c, wOk)
  \/ RaceTick

RaceSpec == RaceInit /\ [][RaceNext]_vars

\* ------------------------------------------------------------ masking
\* One gitleaks finding: its Secret, and the code field the adapter makes
\* of it. A secret is a sequence of characters.
MaxSecretLen == 9

SecretChars == {"a", "b", "*"}

\* secret.length <= 8 ? '***'
\*   : secret.substring(0, 4) + '***' + secret.substring(secret.length - 4)
maskSecret(secret) ==
  IF Len(secret) <= 8 THEN <<"*", "*", "*">>
  ELSE SubSeq(secret, 1, 4) \o <<"*", "*", "*">> \o SubSeq(secret, Len(secret) - 3, Len(secret))

MaskFrame ==
  UNCHANGED <<pc, seq, deliveryVars, fsVars, runVars, storeVars, probe, engine, invoked,
              curl, inst, conn, temp, dl, tree, mapping, fan, race, area>>

\* gitleaks has reported a secret, which is not empty.
MaskInit ==
  /\ pc = "idle" /\ seq = 0 /\ body = NoBody /\ job = NoJob /\ token = FALSE
  /\ response = 0 /\ failedAt = "none" /\ wrote = <<>>
  /\ dirs = {} /\ zips = {} /\ scanRoot = "flat" /\ handle = 0 /\ releases = 0
  /\ rmFailed = FALSE /\ timer = "none" /\ ad = IdleAdapters /\ killed = {}
  /\ pending = NoPending /\ scans = [s \in ScanIds |-> NewScanRow] /\ issueRows = <<>>
  /\ probe = NoProbe /\ engine = NoEngine /\ invoked = {} /\ curl = NoCurl
  /\ inst = NoInst /\ conn = NoConn /\ temp = NoTemp /\ dl = NoDl /\ tree = NoTree
  /\ mapping = NoMapping /\ fan = NoFan /\ race = NoRace /\ area = NoArea
  /\ \E x \in BSeq(SecretChars, MaxSecretLen) \ {<<>>} :
       mask = [kind |-> "secret", secret |-> x, code |-> <<>>]

\* The adapter maps the finding: code: maskSecret(finding.Secret).
MaskFinding ==
  /\ mask.kind = "secret"
  /\ mask' = [mask EXCEPT !.kind = "finding", !.code = maskSecret(mask.secret)]
  /\ MaskFrame

MaskNext == MaskFinding

MaskSpec == MaskInit /\ [][MaskNext]_vars

\* -------------------------------------------------- sweep and a live job
\* One job from mkdir to the release of its handle, while time passes and
\* cleanupOldTempFiles recurs. The job has two entries in .temp: "dir",
\* the job-scoped directory, and "zip", the archive beside it. An entry's
\* age is the time since its mtime, in half hours: a directory's mtime
\* moves when an entry is made or removed directly in it, a file's when
\* it is written.
AreaFrame ==
  UNCHANGED <<pc, seq, deliveryVars, fsVars, runVars, storeVars, probe, engine, invoked,
              curl, inst, conn, temp, dl, tree, mapping, fan, race, mask>>

\* Entry e has just been made or written.
Touch(age, e) == [x \in DOMAIN age \cup {e} |-> IF x = e THEN 0 ELSE age[x]]

\* mkdir(tempDir) has returned; the next sweep is at most an interval away.
AreaInit ==
  /\ pc = "idle" /\ seq = 0 /\ body = NoBody /\ job = NoJob /\ token = FALSE
  /\ response = 0 /\ failedAt = "none" /\ wrote = <<>>
  /\ dirs = {} /\ zips = {} /\ scanRoot = "flat" /\ handle = 0 /\ releases = 0
  /\ rmFailed = FALSE /\ timer = "none" /\ ad = IdleAdapters /\ killed = {}
  /\ pending = NoPending /\ scans = [s \in ScanIds |-> NewScanRow] /\ issueRows = <<>>
  /\ probe = NoProbe /\ engine = NoEngine /\ invoked = {} /\ curl = NoCurl
  /\ inst = NoInst /\ conn = NoConn /\ temp = NoTemp /\ dl = NoDl /\ tree = NoTree
  /\ mapping = NoMapping /\ fan = NoFan /\ race = NoRace /\ mask = NoMask
  /\ \E k \in 0..SweepInterval :
       area = [kind |-> "job", stage |-> "download", age |-> Touch(<<>>, "dir"),
               since |-> k, lost |-> {}]

\* curl writes to the archive: the file's mtime moves, the directory's
\* does not, the archive being beside it.
AreaCurlWrites ==
  /\ area.kind = "job" /\ area.stage = "download"
  /\ area' = [area EXCEPT !.age = Touch(@, "zip")]
  /\ AreaFrame

\* curl exits, which nothing but curl itself brings about, and the archive
\* passes the checks.
AreaCurlExit ==
  /\ area.kind = "job" /\ area.stage = "download"
  /\ "zip" \in DOMAIN area.age
  /\ area' = [area EXCEPT !.stage = "extract"]
  /\ AreaFrame

\* unzip -d tempDir makes the wrapper directory in the job directory (and
\* the job directory, if it is gone).
AreaUnzipStarts ==
  /\ area.kind = "job" /\ area.stage = "extract"
  /\ "zip" \in DOMAIN area.age
  /\ area' = [area EXCEPT !.stage = "extracting", !.age = Touch(@, "dir")]
  /\ AreaFrame

\* unzip has written the tree below the wrapper; the flatten moves the
\* wrapper's children up and rm(zipPath) removes the archive.
AreaExtracted ==
  /\ area.kind = "job" /\ area.stage = "extracting"
  /\ "dir" \in DOMAIN area.age
  /\ area' = [area EXCEPT !.stage = "scan",
                          !.age = Restrict(Touch(@, "dir"), {"dir"})]
  /\ AreaFrame

\* The adapters have settled and the finally block released the handle.
AreaScanEnds ==
  /\ area.kind = "job" /\ area.stage = "scan"
  /\ area' = [area EXCEPT !.stage = "done", !.age = Restrict(@, DOMAIN @ \ {"dir"})]
  /\ AreaFrame

\* Half an hour passes while the job waits on curl, on unzip or on its
\* adapters.
AreaTick ==
  /\ area.kind = "job" /\ area.stage # "done"
  /\ area.since < SweepInterval
  /\ area' = [area EXCEPT !.since = @ + 1,
                          !.age = [e \in DOMAIN area.age |->
                                     IF area.age[e] < OldAge THEN area.age[e] + 1 ELSE OldAge]]
  /\ AreaFrame

\* cleanupOldTempFiles from setInterval: it knows nothing of the jobs.
AreaSweep(readdirOk, failing) ==
  /\ area.kind = "job" /\ area.stage # "done"
  /\ area.since = SweepInterval
  /\ failing \subseteq DOMAIN area.age
  /\ LET gone == SweepRemoves(area.age, readdirOk, failing)
     IN area' = [area EXCEPT !.age = Restrict(@, DOMAIN @ \ gone),
                             !.since = 0,
                             !.lost = @ \cup gone]
  /\ AreaFrame

AreaNext ==
  \/ AreaCurlWrites
  \/ AreaCurlExit
  \/ AreaUnzipStarts
  \/ AreaExtracted
  \/ AreaScanEnds
  \/ AreaTick
  \/ \E readdirOk \in BOOLEAN, failing \in SUBSET {"dir", "zip"} : AreaSweep(readdirOk, failing)

AreaSpec == AreaInit /\ [][AreaNext]_vars

\* ------------------------------------------------------------- claims
\* Positions of a delivery at which runSecurityScan holds the job-scoped
\* directory: from its creation to the end of the finally block.
InRun == {"acq_url", "acq_download", "acq_extract", "acquired", "adapters", "finally"}

\* The delivery has been answered.
Answered == response # 0

\* C1: a delivery is answered 200 exactly when processJob returned without
\* an error, after the 'completed' update and, for a report with findings,
\* the insert; it is answered 500 exactly when a step threw (request,
\* parse, lookup, credential, URL, acquisition, scan, store); no other
\* status is sent and no delivery that failed gets a 200.
C1_AckIffProcessed ==
  /\ response \in {0, 200, 500}
  /\ (pc = "done") <=> Answered
  /\ (response = 200) <=> (pc = "done" /\ failedAt = "none")
  /\ (response = 500) <=> (pc = "done" /\ failedAt # "none")
  /\ response = 200 =>
       /\ pending.kind = "report"
       /\ wrote = IF Len(pending.issues) > 0 THEN <<"completed", "issues">>
                  ELSE <<"completed">>

C1_Witness == response = 200 /\ wrote = <<"completed", "issues">>

\* C2 as stated: every answer follows the terminal write of this delivery,
\* 'completed' before a 200 and 'failed' with a timestamp before a 500, and
\* the record of an answered delivery is terminal.
C2_AckAfterTerminalWrite ==
  /\ response = 200 => wrote # <<>> /\ wrote[1] = "completed"
  /\ response = 500 => wrote # <<>> /\ wrote[Len(wrote)] = "failed"
  /\ Answered /\ job.scanId \in ScanIds =>
       scans[job.scanId].status \in {"completed", "failed"}

\* C2 amended: a 200 follows the 'completed' update with the report's
\* rollup; a 500 follows the 'failed' update with its timestamp unless the
\* body did not parse or the request errored (nothing is written, no
\* scanId is known) or the 'failed' update itself threw.
C2_AckAfterWriteUnlessNoRecord ==
  /\ response = 200 =>
       /\ wrote # <<>> /\ wrote[1] = "completed"
       /\ scans[job.scanId] = CompletedRow(pending)
  /\ response = 500 =>
       \/ failedAt \in {"request", "parse"} /\ wrote = <<>> /\ job = NoJob
       \/ /\ failedAt \notin {"request", "parse"}
          /\ wrote # <<>> /\ wrote[Len(wrote)] = "failed"
          /\ scans[job.scanId].status = "failed"
          /\ scans[job.scanId].completedAt = "set"
       \/ /\ failedAt \notin {"request", "parse"}
          /\ \A i \in 1..Len(wrote) : wrote[i] # "failed"

C2_Witness == response = 500 /\ wrote = <<"completed", "failed">>

\* C3: a run gets at most one handle, and once runSecurityScan has handed
\* its report or its error to the caller after an acquisition, the finally
\* block's cleanup() has completed (after the timer's, if that fired) and
\* the timer is no longer armed; without a handle nothing is released.
C3_ReleasedBeforeReturn ==
  /\ handle \in {0, 1}
  /\ handle = 0 => releases = 0
  /\ handle = 1 /\ pc \notin InRun =>
       /\ releases = IF timer = "fired" THEN 2 ELSE 1
       /\ timer \in {"cleared", "fired"}
       /\ pending.kind \in {"report", "error"}

C3_Witness == pc = "catch" /\ handle = 1 /\ pending.kind = "error" /\ releases = 1

\* C4 as stated: once a job is out of runSecurityScan, by a report, by an
\* error or after the timer's forced cleanup, its directory is gone.
C4_DirectoryGone == pc \notin InRun => seq \notin dirs

\* C4 amended: once a job is out of runSecurityScan its directory is gone
\* unless a removal of it failed, which cleanup() and the error path of
\* downloadRepoAsZip log and swallow.
C4_DirectoryGoneUnlessRmFailed == pc \notin InRun /\ seq \in dirs => rmFailed

C4_Witness == pc = "done" /\ handle = 1 /\ timer = "fired" /\ ~rmFailed /\ seq \notin dirs

\* C5 as stated: after any number of deliveries of a scanId, a delivery
\* answered 200 leaves the record and the rows that this one report alone
\* would leave: the rows of the scanId are the report's findings and
\* totalIssues counts them.
C5_RedeliveryOverwrites ==
  response = 200 =>
    /\ scans[job.scanId] = CompletedRow(pending)
    /\ RowsOf(job.scanId) = StoredRows(job.scanId, pending.issues)
    /\ Len(RowsOf(job.scanId)) = scans[job.scanId].summary.total

C5_Witness ==
  /\ response = 200 /\ seq = 2
  /\ Len(RowsOf(job.scanId)) = 2 /\ scans[job.scanId].summary.total = 1

\* C6 as stated: a record with status 'failed' has a completion timestamp
\* and no finding rows are stored for its scanId.
C6_FailedHasNoFindings ==
  \A s \in ScanIds :
    scans[s].status = "failed" => scans[s].completedAt = "set" /\ RowsOf(s) = <<>>

C6_Witness ==
  /\ response = 500 /\ seq = 2 /\ job.scanId \in ScanIds
  /\ scans[job.scanId].status = "failed" /\ Len(RowsOf(job.scanId)) = 1

\* C7: in every report of runSecurityScan, summary.total is the number of
\* findings and the sum of the five severity counts.
C7_SummaryAddsUp ==
  pending.kind = "report" =>
    /\ pending.summary.total = Len(pending.issues)
    /\ pending.summary.total =
         pending.summary.critical + pending.summary.high + pending.summary.medium
           + pending.summary.low + pending.summary.info

C7_Witness ==
  /\ pending.kind = "report"
  /\ pending.summary.total = 2 /\ pending.summary.critical = 1 /\ pending.summary.info = 1

\* C8 as stated: whatever path a finding carries, the path left by the
\* stripping of the temp root does not contain the temp root.
C8_NoTempRootInPath == probe.done => ~Includes(probe.cleaned, probe.tempDir)

C8_Witness ==
  /\ probe.done /\ probe.tempDir = JobDirPath
  /\ probe.filePath = <<"/", "t", "/", "/", "t", "/", "t">>
  /\ probe.cleaned = <<"/", "t">>

\* What the adapters that succeeded found, in the order of the call sites.
Contribution(p) == IF p.st = "ok" THEN p.issues ELSE <<>>

SucceededIssues(a) ==
  Contribution(a["semgrep"]) \o Contribution(a["opengrep"]) \o Contribution(a["gitleaks"]) \o
  Contribution(a["checkov"]) \o Contribution(a["trivy"])

HasPaths(issues) == \A i \in 1..Len(issues) : issues[i].hasPath

TimedOut(a) == {t \in ToolSet : a[t].st = "timeout"}

Errored(a) == {t \in ToolSet : a[t].st = "error"}

\* The run is past Promise.all and its report or error has just reached, or
\* is about to reach, processJob.
Aggregated ==
  /\ handle = 1
  /\ pc \in {"finally", "persist"} \/ (pc = "catch" /\ failedAt = "scan")

\* C9: the subprocesses killed are those of the adapters that timed out
\* and no others; the step in which an adapter times out kills that one
\* subprocess and leaves every sibling promise as it was; a timed-out
\* adapter contributes nothing; and a run with a timed-out adapter returns
\* the report of the findings of the adapters that succeeded, which the
\* worker goes on to record as completed, unless a finding without a path
\* makes the stripping throw.
C9_TimeoutKillsOnlyItsOwn ==
  /\ [](/\ killed = TimedOut(ad)
        /\ \A t \in TimedOut(ad) : Settled(ad[t]) = <<>>
        /\ Aggregated /\ TimedOut(ad) # {} /\ HasPaths(SucceededIssues(ad)) =>
             /\ pending.kind = "report"
             /\ pending.issues = CleanedIssues(SucceededIssues(ad), TempDirPath)
             /\ pc \in {"finally", "persist"})
  /\ [][\A t \in ToolSet :
          ad[t].st = "running" /\ ad'[t].st = "timeout" =>
            /\ killed' = killed \cup {t}
            /\ \A u \in ToolSet \ {t} : ad'[u] = ad[u]]_vars

C9_Witness ==
  /\ pc = "persist" /\ killed = {"semgrep"} /\ ad["semgrep"].st = "timeout"
  /\ ad["gitleaks"].st = "ok" /\ ad["trivy"].st = "ok" /\ Len(pending.issues) = 2

\* C10: an adapter that failed with an internal error contributes nothing
\* and no subprocess of it or of a sibling was killed for it; with any set
\* of adapters failed, every adapter has settled on its own and the run
\* returns the report of exactly the findings of the adapters that
\* succeeded, which the worker goes on to record as completed, unless a
\* finding without a path makes the stripping throw.
C10_ErrorsContributeNothing ==
  /\ \A t \in Errored(ad) : Settled(ad[t]) = <<>>
  /\ killed \cap Errored(ad) = {}
  /\ Aggregated /\ Errored(ad) # {} =>
       /\ AllSettled(ad)
       /\ IF HasPaths(SucceededIssues(ad))
          THEN /\ pending.kind = "report"
               /\ pending.issues = CleanedIssues(SucceededIssues(ad), TempDirPath)
               /\ pending.summary.total = Len(SucceededIssues(ad))
               /\ pc \in {"finally", "persist"}
          ELSE pending.kind = "error"

C10_Witness ==
  /\ pc = "persist" /\ Errored(ad) = {"semgrep", "checkov"} /\ killed = {}
  /\ ad["opengrep"].st = "ok" /\ ad["gitleaks"].st = "ok" /\ Len(pending.issues) = 2

\* C11: whatever the engine did, the adapter's promise is never rejected:
\* it resolves to a list of well-formed findings of that tool, and to the
\* empty list when the engine was missing, was killed, overflowed the
\* buffer, exited non-zero (where the exit status is read), or printed
\* nothing, no JSON, JSON of another shape or a finding the mapping throws
\* on.
C11_AdapterNeverFails ==
  \A t \in ToolSet : engine[t] # NoEngine[t] =>
    /\ ad[t].st \in {"missing", "timeout", "error", "ok"}
    /\ \A i \in 1..Len(ad[t].issues) :
         ad[t].issues[i].tool = t /\ ad[t].issues[i].severity \in Severities
    /\ ad[t].st # "ok" => ad[t].issues = <<>>
    /\ (\/ ~engine[t].installed
        \/ engine[t].signal # "none"
        \/ ~engine[t].exitOk /\ ~IgnoresExit(t)
        \/ engine[t].stdout # "findings") => ad[t].issues = <<>>
    /\ ad[t] \in SettledOutcomes(t, JobDirPath, MaxRunFindings)

C11_Witness ==
  /\ engine["gitleaks"] # NoEngine["gitleaks"]
  /\ ~engine["gitleaks"].exitOk /\ engine["gitleaks"].signal = "none"
  /\ engine["gitleaks"].stdout = "findings"
  /\ ad["gitleaks"].st = "ok" /\ Len(ad["gitleaks"].issues) = 1

AllMissing(a) == \A t \in ToolSet : a[t].st = "missing"

\* C12: an adapter whose engine is not installed resolves to the empty
\* list and its engine is never started or killed; with all five engines
\* missing the run returns a report without findings and with a zero
\* summary, and, the store accepting the update, the record is completed
\* with totalIssues 0, no row is inserted and the delivery is answered 200.
C12_MissingEnginesStillComplete ==
  /\ \A t \in ToolSet : ad[t].st = "missing" =>
       t \notin invoked /\ t \notin killed /\ ad[t].issues = <<>>
  /\ AllMissing(ad) /\ pc # "adapters" =>
       /\ invoked = {}
       /\ pending.kind = "report" /\ pending.issues = <<>>
       /\ pending.summary = ZeroSummary
       /\ failedAt \in {"none", "store"}
  /\ AllMissing(ad) /\ pc = "done" /\ failedAt = "none" =>
       /\ response = 200
       /\ wrote = <<"completed">>
       /\ scans[job.scanId].status = "completed"
       /\ scans[job.scanId].summary.total = 0
       /\ issueRows = <<>>

C12_Witness == AllMissing(ad) /\ response = 200 /\ scans[job.scanId].status = "completed"

\* C13 as stated: when no engine is installed, the tool list persisted on
\* the completed record is empty.
C13_NoToolsUsedWhenNoneInstalled ==
  AllMissing(ad) /\ response = 200 => scans[job.scanId].toolsUsed = <<>>

C13_Witness ==
  AllMissing(ad) /\ response = 200 /\ invoked = {} /\ scans[job.scanId].toolsUsed = Tools

\* The cached token has more than the margin left at the time of the call.
MoreThanMarginLeft ==
  /\ inst.cachedToken = "old"
  /\ inst.cachedExpiry # <<>>
  /\ inst.cachedExpiry[1] - inst.now > FiveMinutes

\* C14: a call that finds the installation returns the cached token, with
\* no exchange and no write and the row as it was, exactly when a token is
\* cached whose expiry is more than 5 minutes after the time of the call;
\* otherwise (5 minutes or less left, no token, no expiry) a call that
\* returns has made one exchange and one write, the row holds the new
\* token and its expiry, and the new token is returned; a call that throws
\* has made at most one exchange and left the row as it was.
C14_CacheRule ==
  inst.kind \in {"returned", "threw"} /\ inst.found =>
    /\ MoreThanMarginLeft <=>
         /\ inst.kind = "returned" /\ inst.returned = inst.cachedToken
         /\ inst.exchanges = 0 /\ inst.writes = 0
    /\ MoreThanMarginLeft =>
         inst.accessToken = inst.cachedToken /\ inst.tokenExpiresAt = inst.cachedExpiry
    /\ ~MoreThanMarginLeft /\ inst.kind = "returned" =>
         /\ inst.exchanges = 1 /\ inst.writes = 1
         /\ inst.returned = "new" /\ inst.accessToken = "new"
         /\ inst.tokenExpiresAt = <<inst.now + TokenLifetime>>
    /\ inst.kind = "threw" =>
         /\ inst.exchanges <= 1 /\ inst.writes = 0 /\ inst.returned = "none"
         /\ inst.accessToken = inst.cachedToken /\ inst.tokenExpiresAt = inst.cachedExpiry

C14_Witness ==
  /\ inst.kind = "returned" /\ inst.cachedToken = "old"
  /\ inst.cachedExpiry = <<inst.now + FiveMinutes>>
  /\ inst.returned = "new" /\ inst.exchanges = 1

\* C15: a delivery whose token resolution threw (credentials not
\* configured, installation unknown, exchange failed) starts no run: no
\* directory, no download, no handle, no engine; it goes to processJob's
\* catch, where the record is marked failed with a timestamp unless that
\* update throws, and is answered 500; after the answer the server takes
\* the next delivery.
C15_CredentialFailureIsLocal ==
  failedAt = "credential" =>
    /\ pc \in {"catch", "threw", "done"}
    /\ handle = 0 /\ releases = 0 /\ seq \notin dirs /\ seq \notin zips
    /\ pending = NoPending /\ invoked = {} /\ curl = NoCurl /\ timer = "none"
    /\ pc \in {"threw", "done"} =>
         \/ wrote = <<>>
         \/ /\ wrote = <<"failed">>
            /\ scans[job.scanId].status = "failed"
            /\ scans[job.scanId].completedAt = "set"
    /\ pc = "done" => response = 500
    /\ pc = "done" /\ seq < MaxDeliveries => ENABLED (\E b \in Bodies : Deliver(b))

C15_Witness ==
  /\ failedAt = "credential" /\ response = 500 /\ wrote = <<"failed">>
  /\ scans[job.scanId].status = "failed"

\* The repository record has no installation: processJob warns and goes on
\* to the scan without a token.
NoInstallationProceeds ==
  /\ LookupRepo("absent")
  /\ pc' = "scan_begin" /\ ~token' /\ failedAt' = "none"

\* C16: a job without token and without installation, whose repository
\* record has none either, goes on to the scan with no token and no
\* failure; the download command uses the API endpoint with an
\* Authorization header when a token is there and the public archive
\* endpoint without the header when none is, and nothing else.
C16_PublicDownloadWithoutCredential ==
  /\ [](pc = "lookup" => ~token /\ failedAt = "none" /\ ENABLED NoInstallationProceeds)
  /\ [](pc = "acq_download" =>
          \/ curl = [endpoint |-> "api", auth |-> TRUE]
          \/ curl = [endpoint |-> "archive", auth |-> FALSE])
  /\ [][pc = "acq_url" /\ pc' = "acq_download" =>
          /\ curl'.auth = token
          /\ curl'.endpoint = IF token THEN "api" ELSE "archive"]_vars

C16_Witness ==
  pc = "acq_download" /\ curl = [endpoint |-> "archive", auth |-> FALSE]

\* C17: a delivery whose body does not parse starts no credential
\* resolution, no scan and no store write, and is not answered with the
\* retry signal (500).
C17_MalformedNotRetried ==
  failedAt = "parse" =>
    /\ job = NoJob /\ ~token
    /\ handle = 0 /\ releases = 0 /\ seq \notin dirs /\ seq \notin zips
    /\ invoked = {} /\ curl = NoCurl /\ timer = "none"
    /\ wrote = <<>>
    /\ response # 500

C17_Witness ==
  /\ failedAt = "parse" /\ response = 500
  /\ job = NoJob /\ wrote = <<>> /\ handle = 0 /\ seq \notin dirs

\* C18: every delivery is eventually answered (200 or 500), whatever the
\* external subprocesses do.
C18_EveryDeliveryAnswered ==
  (pc = "receiving") ~> (response \in {200, 500})

\* The delivery waits on curl: nothing in the program ends this wait.
C18_Witness ==
  pc = "acq_download" /\ response = 0 /\ timer = "none"

IsHealth(r) == r.method = "GET" /\ r.url = "/health"

\* A job between the parse of its payload and its response.
InProcess(r) ==
  /\ Route(r.method, r.url) = "job"
  /\ r.stage \in {"credential", "acquiring", "scanning", "persisting", "failing"}

\* C19: GET /health is answered 200 in the handler call that receives it,
\* in every state of the jobs that are open (the request is always
\* accepted and never waits), and the step that answers it changes no
\* directory, no store record and no other request.
C19_HealthIndependentOfJobs ==
  /\ [](\A i \in DOMAIN conn :
          IsHealth(conn[i]) => conn[i].stage = "answered" /\ conn[i].status = 200)
  /\ [](Len(conn) < MaxRequests => ENABLED Request("GET", "/health"))
  /\ [][Len(conn') > Len(conn) /\ IsHealth(conn'[Len(conn')]) =>
          /\ dirs' = dirs /\ scans' = scans /\ issueRows' = issueRows /\ zips' = zips
          /\ SubSeq(conn', 1, Len(conn)) = conn]_vars

\* A probe answered after one job failed and while another holds its
\* directory.
C19_Witness ==
  /\ Len(conn) = 3
  /\ Route(conn[1].method, conn[1].url) = "job" /\ conn[1].status = 500
  /\ conn[2].stage = "scanning" /\ 2 \in dirs
  /\ IsHealth(conn[3]) /\ conn[3].status = 200
  /\ scans["s1"].status = "failed"

\* C20: at most one job is between payload parsing and its response at
\* any time.
C20_OneJobAtATime ==
  Cardinality({i \in DOMAIN conn : InProcess(conn[i])}) <= 1

\* Two jobs in process at once, the second acquiring while the first scans.
C20_Witness ==
  /\ Len(conn) >= 2
  /\ InProcess(conn[1]) /\ conn[1].stage = "scanning"
  /\ InProcess(conn[2]) /\ conn[2].stage = "acquiring"

\* C21 as stated: after the handle's release has been called more than
\* once the job-scoped directory is absent.
C21_ReleasedTwiceDirectoryAbsent == releases >= 2 => seq \notin dirs

\* C21 amended: a call of release never fails its caller (the timer
\* callback leaves the run where it is, the finally block goes on with the
\* report or the error of the run), a call that finds the directory
\* already gone leaves it gone and records no failure, and after two or
\* more calls the directory is absent unless a removal of it failed.
C21_ReleaseIdempotent ==
  /\ [](releases >= 2 /\ seq \in dirs => rmFailed)
  /\ [][releases' > releases =>
          /\ releases' = releases + 1
          /\ pc' = CASE pc = "adapters" -> "adapters"
                     [] pending.kind = "report" -> "persist"
                     [] OTHER -> "catch"
          /\ seq \notin dirs => seq \notin dirs' /\ rmFailed' = rmFailed]_vars

\* The timer released the directory, then the finally block called release
\* again.
C21_Witness ==
  /\ releases = 2 /\ timer = "fired" /\ pc \in {"persist", "catch"}
  /\ seq \notin dirs /\ ~rmFailed

ASweep == temp.since = SweepInterval /\ temp'.since = 0

RunEnded == pc \in {"persist", "insert", "returned", "catch", "threw", "done"}

\* C23: when runSecurityScan returns or throws its timer is not armed, and
\* from the finally block's clearTimeout on the timer does not fire and
\* releases nothing: only the finally block's own release follows.
C23_TimerCancelledBeforeExit ==
  /\ [](RunEnded \/ pc = "finally" => timer # "armed")
  /\ [][pc = "finally" => timer' = timer /\ releases' = releases + 1]_vars
  /\ [][RunEnded => timer' = timer /\ releases' = releases /\ dirs' = dirs]_vars

\* The run threw out of its aggregation with the timer cleared.
C23_Witness ==
  /\ pc = "catch" /\ failedAt = "scan" /\ pending.kind = "error"
  /\ timer = "cleared" /\ releases = 1

\* C24 as stated: the archive on disk never holds more than the ceiling,
\* and a payload over the ceiling fails the acquisition without
\* extraction.
C24_CeilingEnforcedDuringTransfer ==
  dl.kind = "download" =>
    /\ dl.written <= MaxRepoSize
    /\ dl.size > MaxRepoSize => ~dl.unzipRan /\ pc \in {"acq_download", "catch", "threw", "done"}

\* The whole oversized body is on disk when the size check rejects it.
C24_Witness ==
  /\ dl.kind = "download" /\ dl.stage = "failed" /\ dl.diag = {"tooLarge"}
  /\ dl.written = dl.size /\ dl.size > MaxRepoSize /\ ~dl.unzipRan

\* The download returned 2xx and the file exists, has content, is within
\* the ceiling and starts with the ZIP magic.
ChecksPass(d) ==
  /\ d.curlOk /\ d.http[1] = "2"
  /\ d.created \/ d.written > 0
  /\ d.written > 0 /\ d.written <= MaxRepoSize
  /\ d.header # <<>> /\ d.header[1] = "PK"

\* C25: unzip is started only on a download that passed every check, and
\* a download that fails one of them fails the acquisition with unzip
\* never run.
C25_ExtractionOnlyAfterValidation ==
  /\ [](dl.kind = "download" /\ (dl.unzipRan \/ dl.stage \in {"unzip", "done"}) =>
          ChecksPass(dl))
  /\ [](dl.kind = "download" /\ dl.stage \notin {"curl", "validate"} /\ ~ChecksPass(dl) =>
          /\ dl.stage = "failed" /\ ~dl.unzipRan
          /\ failedAt = "acquire" /\ pc \in {"catch", "threw", "done"} /\ handle = 0)
  /\ [][dl.kind = "download" /\ dl.stage = "failed" => dl'.stage = "failed" /\ ~dl'.unzipRan]_vars

C25_Witness ==
  /\ dl.kind = "download" /\ dl.unzipRan /\ pc = "acquired" /\ handle = 1
  /\ dl.header = <<"PK">> /\ dl.written = MaxRepoSize

\* The payload is an HTML document: it opens with a doctype or an html
\* tag, which HTML reads in either case.
IsHtmlPage(header) ==
  header # <<>> /\ header[1] \in {"<!DOCTYPE", "<!doctype", "<html", "<HTML"}

\* C26: when curl has downloaded an HTML page, the acquisition fails with
\* a diagnostic that names it an HTML response, the job is marked failed
\* and answered 500, and the directory and the file are gone (removals
\* and the store update taken to succeed).
C26_HtmlPayloadDiagnosed ==
  /\ dl.kind = "download" /\ dl.curlOk /\ IsHtmlPage(dl.header)
  /\ pc = "done" /\ ~rmFailed /\ wrote # <<>>
  => /\ dl.stage = "failed" /\ "html" \in dl.diag
     /\ wrote = <<"failed">> /\ scans[job.scanId].status = "failed"
     /\ response = 500
     /\ seq \notin dirs /\ seq \notin zips

\* A page that opens with <!DOCTYPE, served with 200.
C26_Witness ==
  /\ dl.kind = "download" /\ dl.header = <<"<!DOCTYPE", "<html">> /\ dl.http = <<"2", "0", "0">>
  /\ dl.diag = {"notZip", "html"}
  /\ pc = "done" /\ response = 500 /\ scans[job.scanId].status = "failed"
  /\ seq \notin dirs /\ seq \notin zips

\* C27 as stated: a handle is returned only with the job directory as
\* path, the wrapper gone and every child of the wrapper directly under
\* the job directory.
C27_RootIsJobDirectory ==
  tree.kind = "tree" /\ handle = 1 =>
    /\ tree.path = "root" /\ scanRoot = "flat"
    /\ ~tree.wrapper
    /\ tree.inWrapper = {}
    /\ tree.atRoot = {tree.listing[i] : i \in 1..Len(tree.listing)}

\* The flatten went through.
C27_Witness ==
  /\ tree.kind = "tree" /\ handle = 1 /\ pc = "acquired"
  /\ tree.path = "root" /\ scanRoot = "flat" /\ ~tree.wrapper
  /\ tree.atRoot = {"a", "b", "c"} /\ tree.inWrapper = {}

\* The native severities each adapter's engine documents, in any case for
\* the adapters that fold case.
Recognised(t, native) ==
  CASE t \in {"semgrep", "opengrep"} ->
         native \in {"ERROR", "WARNING", "INFO", "CRITICAL", "error", "warning", "info",
                     "critical", "Error"}
    [] t = "trivy" ->
         native \in {"CRITICAL", "HIGH", "MEDIUM", "LOW", "critical", "high", "medium",
                     "low", "High"}
    [] t = "checkov" ->
         \E i \in 1..Len(native) : native[i] \in {"CRITICAL", "HIGH", "MEDIUM", "LOW"}
    [] OTHER -> TRUE

\* C28: every mapped severity is one of the five levels; gitleaks findings
\* are critical; in the other four adapters a native severity outside the
\* recognised vocabulary becomes info.
C28_UnknownSeverityIsInfo ==
  mapping.kind = "issue" =>
    /\ mapping.mapped \in {"critical", "high", "medium", "low", "info"}
    /\ mapping.tool = "gitleaks" => mapping.mapped = "critical"
    /\ mapping.tool # "gitleaks" /\ ~Recognised(mapping.tool, mapping.native[1]) =>
         mapping.mapped = "info"

\* trivy's default is info.
C28_Witness ==
  /\ mapping.kind = "issue" /\ mapping.tool = "trivy" /\ mapping.native = <<"UNKNOWN">>
  /\ mapping.mapped = "info"

\* The step of the per-delivery state machine a delivery stands at.
Phase ==
  CASE pc = "idle" -> "none"
    [] pc = "receiving" -> "received"
    [] pc \in {"lookup", "token"} -> "credential"
    [] pc = "scan_begin" \/ pc \in InRun -> "scanning"
    [] pc \in {"persist", "insert", "returned"} -> "persisting"
    [] pc = "done" /\ response = 200 -> "acknowledged"
    [] OTHER -> "failed"

\* The steps a delivery may take from one phase to the next.
PhaseSteps ==
  {<<"received", "credential">>, <<"received", "scanning">>, <<"credential", "scanning">>,
   <<"scanning", "persisting">>, <<"persisting", "acknowledged">>} \cup
  {<<p, "failed">> : p \in {"received", "credential", "scanning", "persisting"}}

\* C29: within a delivery the phase stays or moves by one of the steps of
\* received, credential (optional), scanning, persisting, acknowledged,
\* or to failed; an error is raised exactly on entering failed; and from
\* failed the delivery leaves neither the catch path nor its answer 500,
\* writes no 'completed' and is not answered 200.
C29_PhasesInOrder ==
  /\ [][seq' = seq /\ Phase' # Phase => <<Phase, Phase'>> \in PhaseSteps]_vars
  /\ [][seq' = seq /\ failedAt = "none" /\ failedAt' # "none" => Phase' = "failed"]_vars
  /\ [](Phase = "failed" <=> failedAt # "none")
  /\ [][seq' = seq /\ Phase = "failed" =>
          /\ pc' \in {"catch", "threw", "done"}
          /\ response' \in {0, 500}
          /\ token' = token /\ dirs' = dirs /\ handle' = handle /\ invoked' = invoked
          /\ wrote' \in {wrote, Append(wrote, "failed")}]_vars
  /\ [](response = 200 => wrote # <<>> /\ wrote[1] = "completed" /\ failedAt = "none")

\* A delivery that went through every phase, with findings stored.
C29_Witness ==
  /\ Phase = "acknowledged" /\ wrote = <<"completed", "issues">> /\ seq = 1

\* The timer's callback ran in this step.
TimerFires == timer = "armed" /\ timer' = "fired"

\* C30 as stated: when the timer fires during a run the job-scoped
\* directory is removed, the adapters and the job are left as they are.
C30_WatchdogRemovesDirectory ==
  [][TimerFires =>
       /\ seq \notin dirs'
       /\ ad' = ad /\ killed' = killed /\ failedAt' = failedAt /\ pc' = pc]_vars

\* C30 amended: the timer can fire only while the run awaits its adapters;
\* when it does, release is called once, which removes the directory
\* unless the removal fails (the failure is logged and swallowed); no
\* adapter is settled or killed by it, no error is raised and the run
\* stays where it is; afterwards the adapters still to settle do so, and
\* the run goes on to its aggregation and its finally block as without
\* the timer.
C30_WatchdogOnlyReleases ==
  /\ [][TimerFires =>
          /\ pc = "adapters" /\ pc' = pc /\ handle = 1
          /\ releases' = releases + 1
          /\ seq \notin dirs' \/ rmFailed'
          /\ ad' = ad /\ killed' = killed /\ invoked' = invoked
          /\ failedAt' = failedAt /\ pending' = pending /\ response' = response]_vars
  /\ [](timer = "fired" /\ pc = "adapters" =>
          /\ \A t \in ToolSet : ad[t].st = "running" => ENABLED AdapterError(t)
          /\ AllSettled(ad) => ENABLED Aggregate)
  /\ [](timer = "fired" /\ pc = "finally" => ENABLED (\E rmOk \in BOOLEAN : Finally(rmOk)))

\* The timer fired with adapters still running, they settled afterwards
\* and the report was stored and acknowledged.
C30_Witness ==
  /\ timer = "fired" /\ releases = 2 /\ response = 200
  /\ pending.kind = "report" /\ Len(pending.issues) > 0 /\ seq \notin dirs

\* The adapters the job's skipTools leaves enabled.
Enabled == ToolSet \ fan.skipTools

\* C31: in a run every adapter not in skipTools is started exactly once
\* (it is called in the one step before the first await, its promise is
\* pushed once, and it is never started again), an adapter in skipTools is
\* never started; all enabled adapters are started when the run awaits;
\* and the report or error of the run is produced only after every started
\* adapter has settled.
C31_EnabledStartedOnce ==
  /\ [](fan.kind = "run" /\ pc # "acquired" =>
          /\ \A t \in fan.skipTools : ad[t].st = "idle" /\ t \notin invoked
          /\ \A t \in Enabled : ad[t].st # "idle"
          /\ Range(fan.scanPromises) = Enabled
          /\ Len(fan.scanPromises) = Cardinality(Enabled))
  /\ [][fan.kind = "run" =>
          \A t \in ToolSet :
            /\ ad[t].st = "idle" /\ ad'[t].st # "idle" =>
                 pc = "acquired" /\ ad'[t].st = "running" /\ t \in Enabled
            /\ ad[t].st # "idle" => ad'[t].st \notin {"idle", "running"} \/ ad'[t] = ad[t]
            /\ ad[t].st \notin {"idle", "running"} => ad'[t] = ad[t]]_vars
  /\ [](fan.kind = "run" /\ pending # NoPending =>
          \A t \in Enabled : ad[t].st \notin {"idle", "running"})

\* Two adapters skipped, the other three settled in another order than
\* they were started, and the report returned.
C31_Witness ==
  /\ fan.kind = "run" /\ fan.skipTools = {"opengrep", "checkov"}
  /\ fan.scanPromises = <<"semgrep", "gitleaks", "trivy">>
  /\ fan.scannerResults = <<"trivy", "semgrep", "gitleaks">>
  /\ pc = "persist" /\ pending.kind = "report"
  /\ pending.toolsUsed = <<"semgrep", "gitleaks", "trivy">>

\* C32: the findings of a report are the findings of the enabled adapters
\* in the order semgrep, opengrep, gitleaks, checkov, trivy, whatever the
\* order in which the adapters completed, and the findings of one adapter
\* stand in the order in which its engine printed them.
C32_FindingsInFixedOrder ==
  /\ fan.kind = "run" /\ pending.kind = "report" =>
       pending.issues = CleanedIssues(SucceededIssues(ad), TempDirPath)
  /\ fan.kind = "run" =>
       \A t \in ToolSet :
         ad[t].st = "ok" /\ engine[t].stdout = "findings" =>
           /\ Len(ad[t].issues) = Len(engine[t].out)
           /\ \A i \in 1..Len(ad[t].issues) :
                ad[t].issues[i].tool = t /\ ad[t].issues[i].filePath = engine[t].out[i].path

\* trivy completed before semgrep, whose engine printed b before a: the
\* report has semgrep's two findings, b first, and then trivy's.
C32_Witness ==
  /\ fan.kind = "run" /\ pending.kind = "report" /\ pc = "persist"
  /\ Len(fan.scannerResults) = 5 /\ Len(pending.issues) = 3
  /\ fan.scannerResults[1] = "trivy" /\ fan.scannerResults[5] = "semgrep"
  /\ pending.issues[1].tool = "semgrep" /\ pending.issues[1].filePath = <<"b">>
  /\ pending.issues[2].tool = "semgrep" /\ pending.issues[2].filePath = <<"a">>
  /\ pending.issues[3].tool = "trivy"

\* The token a call returned is one GitHub issued and has not expired at
\* the time of the return.
Unexpired(k) ==
  \E d \in race.issued : d.token = k.returned /\ d.exp > k.at

\* C33: with the calls for one installation interleaved in any way, a
\* call that returns has returned either the cached token, which then had
\* more than 5 minutes left when the row was read, or the token issued to
\* its own exchange; in both cases the token is unexpired at the return;
\* and the row always holds a token together with that token's expiry.
C33_ReturnedTokenUnexpired ==
  race.kind = "race" =>
    /\ \A c \in Callers :
         race.call[c].stage = "returned" =>
           /\ Unexpired(race.call[c])
           /\ IF race.call[c].cached
              THEN \E d \in race.issued :
                     d.token = race.call[c].returned /\ d.exp > race.call[c].now + FiveMinutes
              ELSE race.call[c].returned = NewTokens[c]
    /\ race.row.accessToken # "null" =>
         [token |-> race.row.accessToken, exp |-> race.row.tokenExpiresAt[1]] \in race.issued

\* Both callers refreshed; caller 2 wrote the row first and caller 1 last,
\* so the row holds the token of caller 1, and each returned its own.
C33_Witness ==
  /\ race.kind = "race"
  /\ race.call[1].stage = "returned" /\ race.call[1].returned = "new1"
  /\ race.call[2].stage = "returned" /\ race.call[2].returned = "new2"
  /\ race.call[2].at < race.call[1].at
  /\ race.row.accessToken = "new1"

\* A call ends by throwing in this step.
Throws(c) == race.call[c].stage # "threw" /\ race'.call[c].stage = "threw"

\* C34: a call that fails (installation unknown, id not a number, the
\* exchange refused, its body not JSON or without token or expires_at, or
\* anything else thrown) leaves the row as it was in the step in which it
\* throws and has written nothing before; the row changes only in the step
\* in which a call whose exchange succeeded returns, and then to the token
\* and the expiry of that exchange, both at once.
C34_FailureLeavesCache ==
  /\ [][race.kind = "race" =>
          \A c \in Callers : Throws(c) => race'.row = race.row]_vars
  /\ [][race.kind = "race" /\ race'.row # race.row =>
          \E c \in Callers :
            /\ race.call[c].stage = "exchanged" /\ race'.call[c].stage = "returned"
            /\ race'.row = [accessToken |-> race.call[c].data[1].token,
                            tokenExpiresAt |-> <<race.call[c].data[1].exp>>]]_vars
  /\ [](race.kind = "race" =>
          \A c \in Callers :
            race.call[c].stage = "threw" =>
              /\ race.call[c].returned = "none"
              /\ race.call[c].cause \in
                   {"notFound", "invalidId", "store"} \cup (ExchangeOutcomes \ {"ok"})
              /\ race.row.accessToken # NewTokens[c])

\* The exchange of one call came back without token or expires_at and the
\* other call was told the installation id is fine but its store update
\* failed: the row is the one both found.
C34_Witness ==
  /\ race.kind = "race"
  /\ race.call[1].stage = "threw" /\ race.call[1].cause = "missingFields"
  /\ race.call[2].stage = "threw" /\ race.call[2].cause = "store"
  /\ race.row = [accessToken |-> "old", tokenExpiresAt |-> <<FiveMinutes>>]

\* C35 as stated: once downloadRepoAsZip has returned or thrown, the
\* archive of the acquisition is gone.
C35_ArchiveGoneAfterAcquisition ==
  dl.kind = "download" /\ pc \notin {"acq_url", "acq_download", "acq_extract"} =>
    seq \notin zips

\* unzip failed on a validated archive and the removal of the directory
\* threw, so the catch never reached the removal of the archive.
C35_Witness ==
  /\ dl.kind = "download" /\ dl.unzipRan /\ dl.stage = "done"
  /\ pc = "catch" /\ failedAt = "acquire" /\ handle = 0
  /\ seq \in zips /\ seq \in dirs /\ rmFailed

\* The job's repository URL is empty or is no GitHub owner/repo.
BadUrl == job.repoUrl \in {"empty", "invalid"}

\* Nothing of a transfer or a scan exists for the delivery.
NothingStarted ==
  /\ curl = NoCurl /\ seq \notin zips
  /\ handle = 0 /\ timer = "none" /\ ad = IdleAdapters /\ invoked = {}
  /\ pending = NoPending /\ releases = 0

C37_SecretNeverInSnippet ==
  mask.kind = "finding" =>
    /\ ~Includes(mask.code, mask.secret)
    /\ Len(mask.secret) <= 8 => mask.code = <<"*", "*", "*">>
    /\ Len(mask.secret) > 8 =>
         /\ Len(mask.code) = 11
         /\ SubSeq(mask.code, 1, 4) = SubSeq(mask.secret, 1, 4)
         /\ SubSeq(mask.code, 5, 7) = <<"*", "*", "*">>
         /\ SubSeq(mask.code, 8, 11) = SubSeq(mask.secret, Len(mask.secret) - 3, Len(mask.secret))

\* A secret of nine characters that ends in five asterisks stands in full
\* in its snippet.
C37_Witness ==
  /\ mask.kind = "finding"
  /\ mask.secret = <<"a", "b", "a", "b", "*", "*", "*", "*", "*">>
  /\ mask.code = <<"a", "b", "a", "b", "*", "*", "*", "*", "*", "*", "*">>
  /\ Includes(mask.code, mask.secret)

\* C38 as stated: while a job's acquisition or scan is in progress the
\* sweep removes neither its directory nor its archive.
C38_SweepSparesLiveJob ==
  area.kind = "job" => area.lost = {}

\* curl is still writing the archive, more than an hour after mkdir: the
\* sweep has removed the job's directory.
C38_Witness ==
  /\ area.kind = "job" /\ area.stage = "download"
  /\ area.lost = {"dir"} /\ DOMAIN area.age = {"zip"} /\ area.age["zip"] = 0

\* C39 as stated: within one delivery a record that is 'completed' has
\* as many finding rows stored under its scanId as its totalIssues says.
C39_CompletedHasFindings ==
  seq = 1 =>
    \A s \in ScanIds :
      scans[s].status = "completed" => Len(RowsOf(s)) = scans[s].summary.total

\* The insert of the findings threw after the 'completed' update, and the
\* 'failed' update of the catch threw as well: the delivery is answered
\* 500 and the record stays completed with one finding counted and none
\* stored.
C39_Witness ==
  /\ seq = 1 /\ pc = "done" /\ response = 500 /\ failedAt = "store"
  /\ wrote = <<"completed">>
  /\ scans[job.scanId].status = "completed" /\ scans[job.scanId].summary.total = 1
  /\ RowsOf(job.scanId) = <<>>

\* C40 as stated: when a handle is returned every child of the wrapper
\* is below the returned path: with the wrapper as the path no child has
\* been moved out of it, with the job directory as the path all are in it.
C40_AllFilesUnderRoot ==
  tree.kind = "tree" /\ handle = 1 =>
    IF tree.path = "wrapper"
    THEN tree.atRoot = {} /\ tree.wrapper
    ELSE tree.atRoot \cup tree.inWrapper = {tree.listing[i] : i \in 1..Len(tree.listing)}

\* The first child was moved up, the move of the second, which has the
\* wrapper's name, threw: the returned path is the wrapper, and the first
\* child is outside it.
C40_Witness ==
  /\ tree.kind = "tree" /\ handle = 1 /\ pc = "acquired" /\ scanRoot = "nested"
  /\ tree.listing = <<"a", "w">>
  /\ tree.path = "wrapper" /\ tree.atRoot = {"a"} /\ tree.inWrapper = {"w"}

====
